---- MODULE Spec2Model ----
(***************************************************************************)
(* A model of open-zone's application-protocol core: the host store        *)
(* (internal/state/host_store.go), the player registry                     *)
(* (internal/state/player_store.go) and the protocol engine                *)
(* (internal/proto, kept in src/unnamed/part_001).                         *)
(*                                                                         *)
(* Text.  A Go string is a sequence of atoms.  An atom is a TLA+ string    *)
(* that stands for one character (" ", ",", a digit) or for a run of       *)
(* characters none of which the code looks at ("Test Game", "0x123",       *)
(* "203.0.113.9").  The empty string is << >>.                             *)
(*                                                                         *)
(* Two revisions of the host store are in the repository.  The one in      *)
(* host_store.go is what the engine calls.  A second copy, appended to     *)
(* host_store_test.go, adds observedRemoteIP and a different address       *)
(* selection; where a name exists in both, the second copy's definition    *)
(* carries the suffix 2.                                                   *)
(***************************************************************************)
EXTENDS Integers, Sequences, FiniteSets, TLC

VARIABLES
    hosts,        \* HostStore.hosts: peer id -> hostSession
    nextRid,      \* HostStore.nextRid
    port,         \* proto.Engine.port
    hostNil,      \* TRUE when the proto engine was built with host == nil
    playerStore,  \* PlayerStore.players: peer id -> Player
    clock,        \* the wall clock (time.Now), in ticks; 0 is the zero time
    op,           \* the last operation: its name and arguments
    prev,         \* the stores as they were before the last operation
    ret,          \* what the last operation returned
    lastRid,      \* the rowId handed out by the latest allocation (0: none yet)
    lastObserved, \* the address SetObservedRemoteIP last recorded for each peer
    mu,           \* HostStore.mu and PlayerStore.mu: the tasks that hold each, and
                  \* the calls on the two stores each task has in progress
    outQ,         \* dp8.Engine.outQ: the outMsg values the channel holds, oldest first
    pending,      \* the frames of the event in hand that handleEvent has yet to enqueue
    ctxDone,      \* TRUE once the context handed to Run is cancelled
    loopPc,       \* Run's event loop: "pop", "enqueue" or "returned"
    senderPc,     \* sendWorker: "select" or "returned"
    sweeperPc     \* playerSweeper: "select" or "returned"

loopVars == <<outQ, pending, ctxDone, loopPc, senderPc, sweeperPc>>

vars == <<hosts, nextRid, port, hostNil, playerStore, clock, op, prev, ret, lastRid,
          lastObserved, mu,
          outQ, pending, ctxDone, loopPc, senderPc, sweeperPc>>

----------------------------------------------------------------------------
(* Bounds of the model. *)

\* Allocations are followed one by one while nextRid is at most MaxRid, and
\* again when it is within two of the wrap limit.
MaxRid == 1
\* The longest list of <Item .../> elements in one HostData payload.
MaxItems == 2
\* The last tick of the wall clock.
MaxTime == 3
\* The longest text handed to MakeZText.
MaxText == 3

Peers == {1, 2}

\* The tasks that call the stores: Run's event loop, playerSweeper, and two
\* readers of Stats.
Tasks == {"loop", "sweeper", "stats1", "stats2"}

----------------------------------------------------------------------------
(* Go maps and strings. *)

S(a) == <<a>>

EmptyMap == [x \in {} |-> <<>>]

\* m[k] of a Go map: the zero value when k is absent.
Get(m, k) == IF k \in DOMAIN m THEN m[k] ELSE <<>>

Put(m, k, v) == [x \in (DOMAIN m) \cup {k} |-> IF x = k THEN v ELSE m[x]]

Del(m, k) == [x \in (DOMAIN m) \ {k} |-> m[x]]

Digit(d) == <<"0", "1", "2", "3", "4", "5", "6", "7", "8", "9">>[d + 1]

RECURSIVE FormatUint(_)
FormatUint(n) ==
    IF n < 10 THEN <<Digit(n)>> ELSE FormatUint(n \div 10) \o <<Digit(n % 10)>>

IsSpace(a) == a \in {" ", "\t", "\r", "\n"}

RECURSIVE TrimLeft(_)
TrimLeft(s) == IF s # <<>> /\ IsSpace(Head(s)) THEN TrimLeft(Tail(s)) ELSE s

RECURSIVE TrimRight(_)
TrimRight(s) ==
    IF s # <<>> /\ IsSpace(s[Len(s)]) THEN TrimRight(SubSeq(s, 1, Len(s) - 1)) ELSE s

TrimSpace(s) == TrimRight(TrimLeft(s))

\* strings.FieldsFunc: the maximal runs of atoms that are not separators.
RECURSIVE FieldsFrom(_, _, _, _)
FieldsFrom(s, seps, cur, acc) ==
    IF s = <<>> THEN (IF cur = <<>> THEN acc ELSE Append(acc, cur))
    ELSE IF Head(s) \in seps
         THEN FieldsFrom(Tail(s), seps, <<>>, IF cur = <<>> THEN acc ELSE Append(acc, cur))
         ELSE FieldsFrom(Tail(s), seps, Append(cur, Head(s)), acc)

FieldsFunc(s, seps) == FieldsFrom(s, seps, <<>>, <<>>)

Fields(s) == FieldsFunc(s, {" ", "\t", "\r", "\n"})

----------------------------------------------------------------------------
(* internal/state/host_store.go *)

RidLimit == 2147483647

NewHostStore == [hosts |-> EmptyMap, nextRid |-> 1]

getOrCreateLockedBadWrap(st, from) ==
    IF from \in DOMAIN st.hosts THEN st
    ELSE LET nr == IF st.nextRid = 0 \/ st.nextRid >= RidLimit THEN 0 ELSE st.nextRid
             h  == [rid |-> nr, location |-> <<>>, observedRemoteIP |-> <<>>,
                    server |-> EmptyMap, players |-> EmptyMap]
         IN  [hosts |-> Put(st.hosts, from, h), nextRid |-> nr + 1]

getOrCreateLockedRestamp(st, from) ==
    LET nr == IF st.nextRid = 0 \/ st.nextRid >= RidLimit THEN 1 ELSE st.nextRid
    IN  IF from \in DOMAIN st.hosts
        THEN [st EXCEPT !.hosts[from].rid = nr]
        ELSE LET h == [rid |-> nr, location |-> <<>>, observedRemoteIP |-> <<>>,
                       server |-> EmptyMap, players |-> EmptyMap]
             IN  [hosts |-> Put(st.hosts, from, h), nextRid |-> nr + 1]

\* st is the store, [hosts, nextRid]; the result is the store with a session
\* for `from` in it.
getOrCreateLocked(st, from) ==
    IF from \in DOMAIN st.hosts THEN st
    ELSE LET nr == IF st.nextRid = 0 \/ st.nextRid >= RidLimit THEN 1 ELSE st.nextRid
             h  == [rid |-> nr, location |-> <<>>, observedRemoteIP |-> <<>>,
                    server |-> EmptyMap, players |-> EmptyMap]
         IN  [hosts |-> Put(st.hosts, from, h), nextRid |-> nr + 1]

SetLoc(st, from, location) ==
    LET st1 == getOrCreateLocked(st, from)
    IN  [st1 EXCEPT !.hosts[from].location = location]

\* A payload is the sequence of its tags.  A tag is [name, slash, attrs]:
\* the element name, whether the text between < and > holds a '/', and the
\* key="value" pairs in the order written.
RECURSIVE parseAttrs(_)
parseAttrs(pairs) ==
    IF pairs = <<>> THEN EmptyMap
    ELSE LET init == parseAttrs(SubSeq(pairs, 1, Len(pairs) - 1))
             kv   == pairs[Len(pairs)]
         IN  IF kv[1] # "" THEN Put(init, kv[1], kv[2]) ELSE init

RECURSIVE scanSelfClosingElements(_, _)
scanSelfClosingElements(payload, name) ==
    IF payload = <<>> THEN <<>>
    ELSE LET tag  == Head(payload)
             rest == scanSelfClosingElements(Tail(payload), name)
             attrs == parseAttrs(tag.attrs)
         IN  IF tag.name # name THEN rest
             ELSE IF ~tag.slash THEN rest
             ELSE IF DOMAIN attrs = {} THEN rest
             ELSE <<attrs>> \o rest

WithoutItemId(attrs) == [k \in (DOMAIN attrs) \ {"ItemId"} |-> attrs[k]]

Merge(m, attrs) ==
    [k \in (DOMAIN m) \cup (DOMAIN attrs) |-> IF k \in DOMAIN attrs THEN attrs[k] ELSE m[k]]

\* applyItem without the removal of the emptied session.
applyItemNoRemove(acc, attrs) ==
    LET h      == acc.h
        itemID == Get(attrs, "ItemId")
    IN  IF itemID = <<>>
        THEN IF "Num" \in DOMAIN attrs /\ Cardinality(DOMAIN attrs) = 1
             THEN LET h1 == IF attrs["Num"] = S("0")
                            THEN [h EXCEPT !.server = EmptyMap]
                            ELSE [h EXCEPT !.players = Del(h.players, attrs["Num"])]
                  IN  [h |-> h1, present |-> acc.present]
             ELSE acc
        ELSE IF itemID = S("0")
        THEN [acc EXCEPT !.h.server = Merge(h.server, WithoutItemId(attrs))]
        ELSE [acc EXCEPT !.h.players =
                 Put(h.players, itemID, Merge(Get(h.players, itemID), WithoutItemId(attrs)))]

\* One round of ApplyHostData's loop.  acc.h is the session the loop holds,
\* acc.present whether the store still maps `from` to it.
applyItem(acc, attrs) ==
    LET h      == acc.h
        itemID == Get(attrs, "ItemId")
    IN  IF itemID = <<>>
        THEN IF "Num" \in DOMAIN attrs /\ Cardinality(DOMAIN attrs) = 1
             THEN LET h1 == IF attrs["Num"] = S("0")
                            THEN [h EXCEPT !.server = EmptyMap]
                            ELSE [h EXCEPT !.players = Del(h.players, attrs["Num"])]
                  IN  [h |-> h1,
                       present |-> acc.present
                                   /\ ~(DOMAIN h1.server = {} /\ DOMAIN h1.players = {})]
             ELSE acc
        ELSE IF itemID = S("0")
        THEN [acc EXCEPT !.h.server = Merge(h.server, WithoutItemId(attrs))]
        ELSE [acc EXCEPT !.h.players =
                 Put(h.players, itemID, Merge(Get(h.players, itemID), WithoutItemId(attrs)))]

RECURSIVE applyItems(_, _)
applyItems(acc, items) ==
    IF items = <<>> THEN acc ELSE applyItems(applyItem(acc, Head(items)), Tail(items))

ApplyHostData(st, from, payload) ==
    LET items == scanSelfClosingElements(payload, "Item")
    IN  IF Len(items) = 0 THEN st
        ELSE LET st1 == getOrCreateLocked(st, from)
                 r   == applyItems([h |-> st1.hosts[from], present |-> TRUE], items)
             IN  [hosts   |-> IF r.present THEN Put(st1.hosts, from, r.h)
                              ELSE Del(st1.hosts, from),
                  nextRid |-> st1.nextRid]

\* parseHostIpList of host_store.go: the (primary, secondary) pair.
parseHostIpList(raw0) ==
    LET raw == TrimSpace(raw0)
        ips == Fields(raw)
    IN  IF raw = <<>> THEN << <<>>, <<>> >>
        ELSE IF Len(ips) = 0 THEN << <<>>, <<>> >>
        ELSE IF Len(ips) > 1 THEN <<ips[1], ips[2]>>
        ELSE <<ips[1], ips[1]>>

Visible(h) ==
    ~(Get(h.server, "GName") = <<>> /\ Get(h.server, "Map") = <<>>
      /\ Get(h.server, "Ip2") = <<>>)

VisibleGamesCount(hs) == Cardinality({k \in DOMAIN hs : Visible(hs[k])})

copyIfNonEmpty(dst, k, v) == IF v = <<>> THEN dst ELSE Put(dst, k, v)

RECURSIVE copyAll(_, _, _)
copyAll(dst, keys, server) ==
    IF keys = <<>> THEN dst
    ELSE copyAll(copyIfNonEmpty(dst, Head(keys), Get(server, Head(keys))), Tail(keys), server)

\* The Items of the row of session h, given the address pair the caller
\* computed: the body shared by GamesRows and RowByRid.
rowItems(h, rid, ips) ==
    LET i0 == Put(EmptyMap, "Rid", rid)
        i1 == copyAll(i0, <<"GName", "GameV", "Locale">>, h.server)
        i2 == IF ips[1] # <<>> THEN Put(Put(i1, "IpAddr", ips[1]), "Ip2", ips[2]) ELSE i1
    IN  copyAll(i2, <<"SFlags", "Flags", "Map", "World", "NumP", "MaxP",
                      "Difficulty", "Time", "TimeL">>, h.server)

gameRow(h) ==
    LET rid == FormatUint(h.rid)
    IN  [Rid |-> rid, Items |-> rowItems(h, rid, parseHostIpList(Get(h.server, "Ip2")))]

RECURSIVE sortKeysDescending(_)
sortKeysDescending(ks) ==
    IF ks = {} THEN <<>>
    ELSE LET k == CHOOSE x \in ks : \A y \in ks : x >= y
         IN  <<k>> \o sortKeysDescending(ks \ {k})

RECURSIVE sortKeys(_)
sortKeys(ks) ==
    IF ks = {} THEN <<>>
    ELSE LET k == CHOOSE x \in ks : \A y \in ks : x <= y
         IN  <<k>> \o sortKeys(ks \ {k})

RECURSIVE rowsLoopNoFilter(_, _, _, _)
rowsLoopNoFilter(hs, keys, maxRows, out) ==
    IF keys = <<>> THEN out
    ELSE IF maxRows > 0 /\ Len(out) >= maxRows THEN out
    ELSE rowsLoopNoFilter(hs, Tail(keys), maxRows, Append(out, gameRow(hs[Head(keys)])))

RECURSIVE rowsLoop(_, _, _, _)
rowsLoop(hs, keys, maxRows, out) ==
    IF keys = <<>> THEN out
    ELSE IF maxRows > 0 /\ Len(out) >= maxRows THEN out
    ELSE LET h == hs[Head(keys)]
         IN  IF ~Visible(h) THEN rowsLoop(hs, Tail(keys), maxRows, out)
             ELSE rowsLoop(hs, Tail(keys), maxRows, Append(out, gameRow(h)))

GamesRows(hs, maxRows, headers) == rowsLoop(hs, sortKeys(DOMAIN hs), maxRows, <<>>)

RowByRidAnySession(hs, rid, headers) ==
    {[ok |-> TRUE,
      row |-> [Rid |-> rid,
               Items |-> rowItems(hs[k], rid, parseHostIpList(Get(hs[k].server, "Ip2")))]]
     : k \in DOMAIN hs}

\* RowByRid ranges over the map in an order Go leaves open: every session
\* whose rid prints as `rid` is a possible result.
NotFound == [ok |-> FALSE, row |-> [Rid |-> <<>>, Items |-> EmptyMap]]

RowByRid(hs, rid, headers) ==
    LET hit == {k \in DOMAIN hs : FormatUint(hs[k].rid) = rid}
    IN  IF hit = {} THEN {NotFound}
        ELSE {[ok |-> TRUE,
               row |-> [Rid |-> rid,
                        Items |-> rowItems(hs[k], rid,
                                           parseHostIpList(Get(hs[k].server, "Ip2")))]]
              : k \in hit}

----------------------------------------------------------------------------
(* The second copy of the host store, in internal/state/host_store_test.go. *)

SetObservedRemoteIP(st, from, ip0) ==
    LET ip == TrimSpace(ip0)
    IN  IF ip = <<>> THEN st
        ELSE LET st1 == getOrCreateLocked(st, from)
             IN  [st1 EXCEPT !.hosts[from].observedRemoteIP = ip]

RECURSIVE firstOther(_, _, _)
firstOther(ips, i, ipAddr) ==
    IF i > Len(ips) THEN ipAddr
    ELSE IF ips[i] # <<>> /\ ips[i] # ipAddr THEN ips[i]
    ELSE firstOther(ips, i + 1, ipAddr)

parseHostIpList2(raw0) ==
    LET raw == TrimSpace(raw0)
        ips == FieldsFunc(raw, {",", " ", "\t", "\r", "\n"})
    IN  IF raw = <<>> THEN << <<>>, <<>> >>
        ELSE IF Len(ips) = 0 THEN << <<>>, <<>> >>
        ELSE <<ips[1], firstOther(ips, 2, ips[1])>>

hostAdvertisedIPs(server) ==
    LET ipAddr == TrimSpace(Get(server, "IpAddr"))
        raw2   == TrimSpace(Get(server, "Ip2"))
        ps     == parseHostIpList2(raw2)
        p      == ps[1]
        s      == ps[2]
    IN  IF raw2 = <<>> /\ ipAddr = <<>> THEN << <<>>, <<>> >>
        ELSE IF ipAddr = <<>> /\ p # <<>> THEN <<p, s>>
        ELSE IF ipAddr # <<>> /\ raw2 # <<>>
             THEN IF s # <<>> /\ s # ipAddr THEN <<ipAddr, s>>
                  ELSE IF p # <<>> /\ p # ipAddr THEN <<ipAddr, p>>
                  ELSE <<ipAddr, ipAddr>>
        ELSE IF ipAddr # <<>> THEN <<ipAddr, ipAddr>>
        ELSE <<ipAddr, <<>> >>

\* net.ParseIP on the address atoms of the model: the four octets, or << >>
\* (nil) for text that is no IP address.
ParseIP(s) ==
    IF Len(s) # 1 THEN <<>>
    ELSE CASE s[1] = "203.0.113.9"   -> <<203, 0, 113, 9>>
           [] s[1] = "198.51.100.11" -> <<198, 51, 100, 11>>
           [] s[1] = "198.51.100.7"  -> <<198, 51, 100, 7>>
           [] s[1] = "192.168.1.2"   -> <<192, 168, 1, 2>>
           [] s[1] = "10.0.0.5"      -> <<10, 0, 0, 5>>
           [] s[1] = "127.0.0.1"     -> <<127, 0, 0, 1>>
           [] OTHER                  -> <<>>

IsLoopback(ip) == ip[1] = 127

IsPrivate(ip) ==
    \/ ip[1] = 10
    \/ ip[1] = 172 /\ ip[2] >= 16 /\ ip[2] <= 31
    \/ ip[1] = 192 /\ ip[2] = 168

isPrivateIP(s) ==
    LET ip == ParseIP(TrimSpace(s))
    IN  IF ip = <<>> THEN TRUE ELSE IsLoopback(ip) \/ IsPrivate(ip)

hostBrowseIPsNoPrivateCheck(h) ==
    LET adv   == hostAdvertisedIPs(h.server)
        adv1  == adv[1]
        adv2  == adv[2]
        ipAddr == h.observedRemoteIP
    IN  IF TrimSpace(h.observedRemoteIP) # <<>>
        THEN IF adv1 # <<>> /\ adv1 # ipAddr THEN <<ipAddr, adv1>>
             ELSE IF adv2 # <<>> /\ adv2 # ipAddr THEN <<ipAddr, adv2>>
             ELSE <<ipAddr, ipAddr>>
        ELSE <<adv1, adv2>>

hostBrowseIPs(h) ==
    LET adv   == hostAdvertisedIPs(h.server)
        adv1  == adv[1]
        adv2  == adv[2]
        ipAddr == h.observedRemoteIP
    IN  IF TrimSpace(h.observedRemoteIP) # <<>>
        THEN IF adv1 # <<>> /\ adv1 # ipAddr /\ ~isPrivateIP(adv1) THEN <<ipAddr, adv1>>
             ELSE IF adv2 # <<>> /\ adv2 # ipAddr /\ ~isPrivateIP(adv2) THEN <<ipAddr, adv2>>
             ELSE <<ipAddr, ipAddr>>
        ELSE <<adv1, adv2>>

gameRow2(h) ==
    LET rid == FormatUint(h.rid)
    IN  [Rid |-> rid, Items |-> rowItems(h, rid, hostBrowseIPs(h))]

RECURSIVE rowsLoop2(_, _, _, _)
rowsLoop2(hs, keys, maxRows, out) ==
    IF keys = <<>> THEN out
    ELSE IF maxRows > 0 /\ Len(out) >= maxRows THEN out
    ELSE LET h == hs[Head(keys)]
         IN  IF ~Visible(h) THEN rowsLoop2(hs, Tail(keys), maxRows, out)
             ELSE rowsLoop2(hs, Tail(keys), maxRows, Append(out, gameRow2(h)))

GamesRows2(hs, maxRows, headers) == rowsLoop2(hs, sortKeys(DOMAIN hs), maxRows, <<>>)

RowByRid2(hs, rid, headers) ==
    LET hit == {k \in DOMAIN hs : FormatUint(hs[k].rid) = rid}
    IN  IF hit = {} THEN {NotFound}
        ELSE {[ok |-> TRUE,
               row |-> [Rid |-> rid, Items |-> rowItems(hs[k], rid, hostBrowseIPs(hs[k]))]]
              : k \in hit}

----------------------------------------------------------------------------
(* internal/state/player_store.go.  A time is a tick count; 0 is the zero  *)
(* time.Time.                                                              *)

NewPlayerStore == EmptyMap

UpsertOverEvicted(ps, dpnid, now0, clk) ==
    LET now == IF now0 = 0 THEN clk ELSE now0
    IN  Put(ps, dpnid, [DPNID |-> dpnid, ConnectedAt |-> now, EvictedAt |-> 0])

\* now0 is the caller's time, clk what time.Now() reads.
Upsert(ps, dpnid, now0, clk) ==
    LET now == IF now0 = 0 THEN clk ELSE now0
    IN  IF dpnid \in DOMAIN ps /\ ps[dpnid].EvictedAt # 0 THEN ps
        ELSE Put(ps, dpnid, [DPNID |-> dpnid, ConnectedAt |-> now, EvictedAt |-> 0])

IsEvictedEntry(ps, dpnid) == dpnid \in DOMAIN ps /\ ps[dpnid].EvictedAt # 0

\* A remove that passes over evicted entries.
RemoveActiveOnly(ps, dpnid) ==
    IF IsEvictedEntry(ps, dpnid) THEN <<ps, FALSE>> ELSE <<Del(ps, dpnid), dpnid \in DOMAIN ps>>

\* The pair <<store, result>>.
Remove(ps, dpnid) == <<Del(ps, dpnid), dpnid \in DOMAIN ps>>

Count(ps) == Cardinality({d \in DOMAIN ps : ps[d].EvictedAt = 0})

IsEvicted(ps, dpnid) == dpnid \in DOMAIN ps /\ ps[dpnid].EvictedAt # 0

TouchEvictAgain(ps, dpnid, now0, clk) ==
    IF dpnid \notin DOMAIN ps THEN <<ps, FALSE>>
    ELSE LET now == IF now0 = 0 THEN clk ELSE now0
         IN  <<[ps EXCEPT ![dpnid].EvictedAt = now], TRUE>>

TouchEvict(ps, dpnid, now0, clk) ==
    IF dpnid \notin DOMAIN ps THEN <<ps, FALSE>>
    ELSE IF ps[dpnid].EvictedAt # 0 THEN <<ps, FALSE>>
    ELSE LET now == IF now0 = 0 THEN clk ELSE now0
         IN  <<[ps EXCEPT ![dpnid].EvictedAt = now], TRUE>>

SweepEvictStrictlyOlder(ps, now0, maxAge, clk) ==
    IF maxAge <= 0 THEN <<ps, {}>>
    ELSE LET now == IF now0 = 0 THEN clk ELSE now0
             due == {d \in DOMAIN ps :
                        /\ ps[d].EvictedAt = 0
                        /\ \/ ps[d].ConnectedAt = 0
                           \/ now - ps[d].ConnectedAt > maxAge}
         IN  <<[d \in DOMAIN ps |-> IF d \in due THEN [ps[d] EXCEPT !.EvictedAt = now]
                                    ELSE ps[d]],
               due>>

\* The pair <<store, evicted>>; evicted is the set of the ids the sweep
\* returns (the slice's order is the map's, which Go leaves open).
SweepEvict(ps, now0, maxAge, clk) ==
    IF maxAge <= 0 THEN <<ps, {}>>
    ELSE LET now == IF now0 = 0 THEN clk ELSE now0
             due == {d \in DOMAIN ps :
                        /\ ps[d].EvictedAt = 0
                        /\ \/ ps[d].ConnectedAt = 0
                           \/ now - ps[d].ConnectedAt >= maxAge}
         IN  <<[d \in DOMAIN ps |-> IF d \in due THEN [ps[d] EXCEPT !.EvictedAt = now]
                                    ELSE ps[d]],
               due>>

----------------------------------------------------------------------------
(* The protocol engine, src/unnamed/part_001 (package proto).              *)
(* An outbound payload is kept as the element it spells: [tag, attrs,      *)
(* children], attrs a sequence of <<name, value>> pairs in the order       *)
(* written, children a sequence of [tag, attrs] elements.                  *)

HR0 == <<S("HR"), S("0x00000000")>>

Elem(tag, attrs, children) == [tag |-> tag, attrs |-> attrs, children |-> children]

Outbound(tag, payload, exp) == [Tag |-> tag, PayloadXML |-> payload, Exp |-> exp]

Attr(in, k) == Get(in.Attrs, k)

OrDefaultKeepEmpty(v, d) == v

OrDefault(v, d) == IF v = <<>> THEN d ELSE v

xmlEscapeAttr(s) ==
    [i \in 1..Len(s) |->
        CASE s[i] = "&"  -> "&amp;"
          [] s[i] = "\"" -> "&quot;"
          [] s[i] = "<"  -> "&lt;"
          [] s[i] = ">"  -> "&gt;"
          [] OTHER       -> s[i]]

headerTokensOneSchema(vid) ==
    <<S("Rid"), S("GName"), S("GameV"), S("Locale"), S("IpAddr"), S("Ip2"),
      S("SFlags"), S("Flags"), S("Map"), S("World"), S("NumP"), S("MaxP"),
      S("Difficulty"), S("Time"), S("TimeL"), S("InGame")>>

headerTokensForView(vid) ==
    IF vid = S("501") THEN <<S("User"), S("PTeam"), S("PChar"), S("PLev")>>
    ELSE <<S("Rid"), S("GName"), S("GameV"), S("Locale"), S("IpAddr"), S("Ip2"),
           S("SFlags"), S("Flags"), S("Map"), S("World"), S("NumP"), S("MaxP"),
           S("Difficulty"), S("Time"), S("TimeL"), S("InGame")>>

\* now is in seconds since the Unix epoch.
Y2000 == 946684800

SecondsSince2000UTC(now) == IF now < Y2000 THEN 0 ELSE now - Y2000

\* "0x%08x" of a 32-bit value cut from now.UnixNano(): the nanosecond count
\* is beyond TLC's integers, so the text is kept as a symbol naming the value.
NanoHex(which, now) == <<"0x", which>> \o FormatUint(now)

handleConnect(p, now, in) ==
    LET cx    == OrDefault(Attr(in, "Cx"), S("0x0"))
        pv    == OrDefault(Attr(in, "ProtoVer"), S("3.3"))
        t2000 == FormatUint(SecondsSince2000UTC(now))
        siid  == NanoHex("uint32(UnixNano)", now)
        lid   == NanoHex("uint32(UnixNano>>32)", now)
        randv == NanoHex("uint32(UnixNano^Unix)", now)
        msg1  == Elem(S("ConnectRes"),
                      <<HR0, <<S("Cx"), cx>>, <<S("ProtoVer"), pv>>, <<S("SIId"), siid>>,
                        <<S("LId"), lid>>, <<S("ConSId"), siid>>, <<S("ConLId"), lid>>,
                        <<S("Time"), t2000>>, <<S("Locale"), S("0x0409")>>,
                        <<S("Random"), randv>>,
                        <<S("AppGuid"), S("77E2D9C2-504E-459F-8416-0848130BBE1E")>> >>,
                      <<>>)
        msg2  == Elem(S("ConInfoRes"),
                      <<HR0, <<S("Cx"), cx>>, <<S("IpAddr"), S("127.0.0.1")>>,
                        <<S("Port"), FormatUint(p)>> >>, <<>>)
        msg3  == Elem(S("ConnectEv"), <<HR0, <<S("Cx"), cx>>, <<S("Time"), t2000>> >>, <<>>)
    IN  <<Outbound(S("ConnectRes"), msg1, "send"),
          Outbound(S("ConInfoRes"), msg2, "send"),
          Outbound(S("ConnectEv"), msg3, "send")>>

handleSetLoc(in) ==
    LET cx == OrDefault(Attr(in, "Cx"), S("0x0"))
    IN  <<Outbound(S("SetLocRes"),
                   Elem(S("SetLocRes"),
                        <<HR0, <<S("Cx"), cx>>,
                          <<S("Flags"), xmlEscapeAttr(Attr(in, "Flags"))>>,
                          <<S("Location"), xmlEscapeAttr(Attr(in, "Location"))>> >>,
                        <<>>),
                   "send-host")>>

handleHostDataSilentOnEmpty(in) ==
    LET cx == OrDefault(Attr(in, "Cx"), S("0x0"))
    IN  IF scanSelfClosingElements(in.Raw, "Item") = <<>> THEN <<>>
        ELSE <<Outbound(S("HostDataRes"),
                        Elem(S("HostDataRes"), <<HR0, <<S("Cx"), cx>> >>, <<>>),
                        "send-host")>>

handleHostData(in) ==
    LET cx == OrDefault(Attr(in, "Cx"), S("0x0"))
    IN  <<Outbound(S("HostDataRes"),
                   Elem(S("HostDataRes"), <<HR0, <<S("Cx"), cx>> >>, <<>>),
                   "send-host")>>

handleHdrRow(in) ==
    LET cx      == OrDefault(Attr(in, "Cx"), S("0x0"))
        vid     == OrDefault(Attr(in, "Vid"), S("0"))
        headers == headerTokensForView(vid)
        hdrs    == [tag |-> S("Hdrs"),
                    attrs |-> [i \in 1..Len(headers) |->
                                  << <<"H">> \o FormatUint(i - 1), xmlEscapeAttr(headers[i])>>]]
    IN  <<Outbound(S("HdrRowRes"),
                   Elem(S("HdrRowRes"), <<HR0, <<S("Cx"), cx>>, <<S("Vid"), vid>> >>, <<hdrs>>),
                   "send")>>

rowElemNonEmptyOnly(headers, r) ==
    [tag |-> S("Row"),
     attrs |-> SelectSeq([i \in 1..Len(headers) |->
                             <<headers[i], xmlEscapeAttr(Get(r.Items, headers[i][1]))>>],
                         LAMBDA a : a[2] # <<>>)]

\* The <Row .../> element of a row: one attribute per header token.
rowElem(headers, r) ==
    [tag |-> S("Row"),
     attrs |-> [i \in 1..Len(headers) |->
                   LET val == Get(r.Items, headers[i][1])
                   IN  <<headers[i],
                         xmlEscapeAttr(IF i = 1 /\ val = <<>> THEN r.Rid ELSE val)>>]]

pageAttrs(cx, vid, pageNo, count, num, str) ==
    <<HR0, <<S("Cx"), cx>>, <<S("Vid"), vid>>, <<S("ViewId"), vid>>,
      <<S("PageNo"), pageNo>>, <<S("PageNumber"), pageNo>>,
      <<S("VType"), S("0")>>, <<S("ViewType"), S("0")>>, <<S("VIdx"), S("0")>>,
      <<S("ViewIndex"), S("0")>>, <<S("VTotal"), S("0")>>, <<S("ViewTotal"), S("0")>>,
      <<S("Count"), count>>, <<S("Num"), xmlEscapeAttr(num)>>,
      <<S("Str"), xmlEscapeAttr(str)>> >>

\* nilHost: p.host == nil; hs: the sessions of p.host otherwise.
handlePage(nilHost, hs, in) ==
    LET cx      == OrDefault(Attr(in, "Cx"), S("0x0"))
        vid     == OrDefault(Attr(in, "Vid"), S("0"))
        pageNo  == OrDefault(Attr(in, "PageNo"), S("0"))
        num     == OrDefault(Attr(in, "Num"), S("0"))
        str     == Attr(in, "Str")
        headers == headerTokensForView(vid)
        rows    == IF ~nilHost /\ vid = S("101") THEN GamesRows(hs, 0, headers) ELSE <<>>
    IN  IF Len(rows) = 0
        THEN <<Outbound(S("PageRes"),
                        Elem(S("PageRes"), pageAttrs(cx, vid, pageNo, S("0"), num, str), <<>>),
                        "send")>>
        ELSE <<Outbound(S("PageRes"),
                        Elem(S("PageRes"),
                             pageAttrs(cx, vid, pageNo, FormatUint(Len(rows)), num, str),
                             [i \in 1..Len(rows) |-> rowElem(headers, rows[i])]),
                        "send-page-rows")>>

rowPgAttrs(hr, cx, vid, rid, num, str, count) ==
    << <<S("HR"), hr>>, <<S("Cx"), cx>>, <<S("Vid"), vid>>, <<S("Rid"), rid>>,
       <<S("Num"), xmlEscapeAttr(num)>>, <<S("Str"), xmlEscapeAttr(str)>>,
       <<S("Count"), count>> >>

\* The set of the replies RowByRid's open order allows.
handleRowPg(nilHost, hs, in) ==
    LET cx      == OrDefault(Attr(in, "Cx"), S("0x0"))
        vid     == OrDefault(Attr(in, "Vid"), S("0"))
        rid     == OrDefault(Attr(in, "Rid"), S("0"))
        num     == OrDefault(Attr(in, "Num"), S("0"))
        str     == Attr(in, "Str")
        headers == headerTokensForView(vid)
    IN  IF nilHost
        THEN {<<Outbound(S("RowPgRes"),
                         Elem(S("RowPgRes"),
                              rowPgAttrs(S("0x80004005"), cx, vid, rid, num, str, S("0")),
                              <<>>),
                         "send-safe-fail")>>}
        ELSE {IF ~res.ok
              THEN <<Outbound(S("RowPgRes"),
                              Elem(S("RowPgRes"),
                                   rowPgAttrs(S("0x00000000"), cx, vid, rid, num, str, S("0")),
                                   <<>>),
                              "send-rowpg-miss")>>
              ELSE <<Outbound(S("RowPgRes"),
                              Elem(S("RowPgRes"),
                                   rowPgAttrs(S("0x00000000"), cx, vid, rid, num, str, S("1")),
                                   <<rowElem(headers, res.row)>>),
                              "send-rowpg-hit")>>
              : res \in RowByRid(hs, rid, headers)}

\* The attribute names a fallback request may carry, in byte order: the
\* strings k="v" that handleFallback sorts have distinct names, none a prefix
\* of another, and so sort as their names do.
FallbackKeys == <<"Cx", "Str", "Vid">>

sortedAttrs(attrs) ==
    LET ks == SelectSeq(FallbackKeys, LAMBDA k : k \in DOMAIN attrs)
    IN  [i \in 1..Len(ks) |-> <<S(ks[i]), attrs[ks[i]]>>]

ContainsAnyNever(s, chars) == FALSE

ContainsAny(s, chars) == \E i \in 1..Len(s) : s[i] \in chars

handleFallback(in) ==
    IF in.Tag = <<>> \/ ContainsAny(in.Tag, {"<", ">", "\"", "'", " ", "/", "\\"})
    THEN <<>>
    ELSE <<Outbound(in.Tag \o S("Res"),
                    Elem(in.Tag \o S("Res"), <<HR0>> \o sortedAttrs(in.Attrs), <<>>),
                    "send-fallback")>>

----------------------------------------------------------------------------
(* The requests the model sends. *)

Msg(tag, attrs, raw) == [Tag |-> tag, Attrs |-> attrs, Raw |-> raw]

Tag(n, slash, attrs) == [name |-> n, attrs |-> attrs, slash |-> slash]

AddrList == <<"203.0.113.9", " ", "198.51.100.11">>

ItemGame ==
    Tag("Item", TRUE, << <<"ItemId", S("0")>>, <<"GName", S("Test Game")>>,
                         <<"Map", S("Test Map")>>, <<"Ip2", AddrList>> >>)

ItemPlayer == Tag("Item", TRUE, << <<"ItemId", S("2")>>, <<"User", S("u")>> >>)

ItemDel0 == Tag("Item", TRUE, << <<"Num", S("0")>> >>)

ItemDel2 == Tag("Item", TRUE, << <<"Num", S("2")>> >>)

\* <Item Num="1" Str="x"/>: neither an upsert nor a delete.
ItemOther == Tag("Item", TRUE, << <<"Num", S("1")>>, <<"Str", S("x")>> >>)

\* <Item Num="0">: not self-closing.
ItemOpen == Tag("Item", FALSE, << <<"Num", S("0")>> >>)

ShapedItems == {ItemGame, ItemPlayer, ItemDel0, ItemDel2}

\* The lists of at most MaxItems upsert- and delete-shape items, and the two
\* lists of one item of neither shape.
ItemLists ==
    UNION {[1..n -> ShapedItems] : n \in 0..MaxItems} \cup {<<ItemOther>>, <<ItemOpen>>}

\* <HostData> followed by the items.
RawOf(items) == <<Tag("HostData", FALSE, <<>>)>> \o items

ConnectMsgs ==
    {Msg(S("Connect"), a, <<>>) : a \in {EmptyMap, [Cx |-> S("0x123"), ProtoVer |-> S("3.3")]}}

HdrRowMsgs ==
    {Msg(S("HdrRow"), a, <<>>) :
        a \in {EmptyMap, [Cx |-> S("0x65"), Vid |-> S("101")],
               [Cx |-> S("0x65"), Vid |-> S("501")], [Vid |-> S("301")]}}

PageMsgs ==
    {Msg(S("Page"), a, <<>>) :
        a \in {EmptyMap, [Cx |-> S("0x66"), Vid |-> S("101"), Str |-> <<"a", "&", "b">>],
               [Vid |-> S("501")]}}

RidTexts == {FormatUint(1), FormatUint(2), FormatUint(RidLimit - 1), <<"0", "1">>}

RowPgMsgs ==
    {Msg(S("RowPg"), a, <<>>) :
        a \in {EmptyMap} \cup {[Cx |-> S("0x16"), Vid |-> S("301"), Rid |-> r] : r \in RidTexts}}

SetLocMsgs ==
    {Msg(S("SetLoc"), a, <<>>) :
        a \in {EmptyMap, [Cx |-> S("0x0"), Flags |-> S("32"),
                          Location |-> S("STAGING AREA=test game")]}}

HostDataMsgs == {Msg(S("HostData"), [Cx |-> S("0x7")], RawOf(l)) : l \in ItemLists}

FallbackMsgs ==
    {Msg(t, a, <<>>) : t \in {S("Foo"), <<"a", "/", "b">>},
                       a \in {EmptyMap, [Vid |-> S("7"), Cx |-> <<"a", "&", "b">>]}}
        \cup {Msg(<<>>, EmptyMap, <<>>)}

\* Unix seconds: one instant before 2000-01-01 and one after.
Nows == {Y2000 - 1, 1700000000}

\* The engines built: the configured one over a store, and one without.
Engines == {[port |-> 47624, hostNil |-> FALSE], [port |-> 2300, hostNil |-> TRUE]}

----------------------------------------------------------------------------
(* The state machine of the engine over its host store. *)

Store == [hosts |-> hosts, nextRid |-> nextRid]

Before == [hosts |-> hosts, nextRid |-> nextRid, lastRid |-> lastRid, players |-> playerStore]

Init ==
    /\ hosts = NewHostStore.hosts
    /\ nextRid = NewHostStore.nextRid
    /\ \E e \in Engines : port = e.port /\ hostNil = e.hostNil
    /\ playerStore = NewPlayerStore
    /\ clock = 1
    /\ op = [name |-> "New"]
    /\ prev = [hosts |-> EmptyMap, nextRid |-> 1, lastRid |-> 0, players |-> EmptyMap]
    /\ ret = <<>>
    /\ lastRid = 0
    /\ lastObserved = [p \in Peers |-> <<>>]
    /\ mu = [r |-> {}, host |-> {}, w |-> {}, stack |-> [t \in Tasks |-> <<>>]]
    /\ outQ = <<>>
    /\ pending = <<>>
    /\ ctxDone = FALSE
    /\ loopPc = "pop"
    /\ senderPc = "select"
    /\ sweeperPc = "select"

\* Allocations are followed while this holds (see MaxRid).
CanAllocate == nextRid <= MaxRid \/ nextRid >= RidLimit - 1

\* The end of a call on the host store or the engine: the store becomes st,
\* the call and its result are recorded.
Done(o, st, r) ==
    /\ st.nextRid # nextRid => CanAllocate
    /\ op' = o
    /\ prev' = Before
    /\ ret' = r
    /\ hosts' = st.hosts
    /\ nextRid' = st.nextRid
    /\ lastRid' = IF st.nextRid # nextRid THEN st.nextRid - 1 ELSE lastRid
    /\ UNCHANGED <<port, hostNil, mu, lastObserved, playerStore, clock>>
    /\ UNCHANGED loopVars

Call(now, from, in) == [name |-> "Handle", now |-> now, from |-> from, in |-> in]

\* Engine.Handle.  The handlers that read neither now nor fromDPNID are
\* called with 0 for them.
HandleConnect ==
    \E now \in Nows, in \in ConnectMsgs :
        Done(Call(now, 0, in), Store, handleConnect(port, now, in))

HandleHdrRow ==
    \E in \in HdrRowMsgs : Done(Call(0, 0, in), Store, handleHdrRow(in))

HandlePage ==
    \E in \in PageMsgs : Done(Call(0, 0, in), Store, handlePage(hostNil, hosts, in))

HandleRowPg ==
    \E in \in RowPgMsgs : \E outs \in handleRowPg(hostNil, hosts, in) :
        Done(Call(0, 0, in), Store, outs)

HandleHostData ==
    \E from \in Peers, in \in HostDataMsgs :
        Done(Call(0, from, in),
             IF hostNil THEN Store ELSE ApplyHostData(Store, from, in.Raw),
             handleHostData(in))

HandleSetLoc ==
    \E from \in Peers, in \in SetLocMsgs :
        Done(Call(0, from, in),
             IF hostNil THEN Store ELSE SetLoc(Store, from, Attr(in, "Location")),
             handleSetLoc(in))

HandleFallback ==
    \E in \in FallbackMsgs : Done(Call(0, 0, in), Store, handleFallback(in))

\* A peer without a session publishes <Item Num="0"/> over and over: every
\* round creates its session, takes the next rowId and deletes the session
\* again.  The rounds that bring nextRid to the wrap limit or next to it are
\* taken as one step.
Churn ==
    /\ ~hostNil
    /\ nextRid < RidLimit - 1
    /\ \E from \in Peers, n \in {RidLimit - 1, RidLimit} :
        /\ from \notin DOMAIN hosts
        /\ op' = [name |-> "Churn", from |-> from]
        /\ prev' = Before
        /\ ret' = handleHostData(Msg(S("HostData"), [Cx |-> S("0x7")], RawOf(<<ItemDel0>>)))
        /\ nextRid' = n
        /\ lastRid' = n - 1
        /\ UNCHANGED <<hosts, port, hostNil, mu, lastObserved, playerStore, clock>>
        /\ UNCHANGED loopVars

Next ==
    \/ HandleConnect
    \/ HandleHdrRow
    \/ HandlePage
    \/ HandleRowPg
    \/ HandleHostData
    \/ HandleSetLoc
    \/ HandleFallback
    \/ Churn

Spec == Init /\ [][Next]_vars

----------------------------------------------------------------------------
(* Properties of the engine over its host store. *)

Handled(tagName) == op.name = "Handle" /\ op.in.Tag = S(tagName)

HasAttr(attrs, k) == \E i \in 1..Len(attrs) : attrs[i][1] = k

\* The value of the first attribute named k.
AttrVal(attrs, k) ==
    LET I == {i \in 1..Len(attrs) : attrs[i][1] = k}
    IN  IF I = {} THEN <<>> ELSE attrs[CHOOSE i \in I : \A j \in I : i <= j][2]

AttrNames(attrs) == [i \in 1..Len(attrs) |-> attrs[i][1]]

\* C1: a Connect request is answered with exactly three frames, ConnectRes,
\* ConInfoRes and ConnectEv in that order; each echoes the request's Cx, or
\* "0x0" when the request has none; ConInfoRes carries the configured port.
C1_ConnectBundle ==
    Handled("Connect") =>
        LET cx == IF Attr(op.in, "Cx") = <<>> THEN S("0x0") ELSE Attr(op.in, "Cx")
        IN  /\ Len(ret) = 3
            /\ <<ret[1].Tag, ret[2].Tag, ret[3].Tag>>
                   = <<S("ConnectRes"), S("ConInfoRes"), S("ConnectEv")>>
            /\ \A i \in 1..3 :
                   /\ ret[i].PayloadXML.tag = ret[i].Tag
                   /\ AttrVal(ret[i].PayloadXML.attrs, S("Cx")) = cx
            /\ AttrVal(ret[2].PayloadXML.attrs, S("Port")) = FormatUint(port)

\* A Connect without Cx has been answered by the engine on port 47624.
C1_Witness ==
    /\ Handled("Connect")
    /\ "Cx" \notin DOMAIN op.in.Attrs
    /\ port = 47624
    /\ Len(ret) = 3
    /\ AttrVal(ret[2].PayloadXML.attrs, S("Port")) = <<"4", "7", "6", "2", "4">>

\* C2: for every view id, known or not, HdrRow is answered with one frame
\* whose child element has the attributes H0..H(N-1) without a gap, in schema
\* order, and no Num or Count attribute anywhere; N is 4 for view 501 and 16
\* (Rid..InGame) for every other view id.
C2_HdrRowSchema ==
    Handled("HdrRow") =>
        LET vid    == Attr(op.in, "Vid")
            n      == IF vid = S("501") THEN 4 ELSE 16
            schema == headerTokensForView(IF vid = <<>> THEN S("0") ELSE vid)
        IN  /\ Len(ret) = 1
            /\ ret[1].Tag = S("HdrRowRes")
            /\ Len(ret[1].PayloadXML.children) = 1
            /\ LET el   == ret[1].PayloadXML
                   hdrs == el.children[1]
               IN  /\ hdrs.tag = S("Hdrs")
                   /\ Len(hdrs.attrs) = n
                   /\ Len(schema) = n
                   /\ \A i \in 1..n :
                          /\ hdrs.attrs[i][1] = <<"H">> \o FormatUint(i - 1)
                          /\ hdrs.attrs[i][2] = schema[i]
                   /\ n = 16 => hdrs.attrs[1][2] = S("Rid") /\ hdrs.attrs[16][2] = S("InGame")
                   /\ n = 4 => [i \in 1..4 |-> hdrs.attrs[i][2]]
                                  = <<S("User"), S("PTeam"), S("PChar"), S("PLev")>>
                   /\ \A k \in {S("Num"), S("Count")} :
                          ~HasAttr(el.attrs, k) /\ ~HasAttr(hdrs.attrs, k)

\* HdrRow for view 501 has been answered with four header attributes.
C2_Witness ==
    /\ Handled("HdrRow")
    /\ Attr(op.in, "Vid") = S("501")
    /\ Len(ret) = 1
    /\ Len(ret[1].PayloadXML.children[1].attrs) = 4

\* C3: after any sequence of publishes, location updates and deletes, a Page
\* request for view 101 is answered with one PageRes whose Count equals the
\* number of its Row children, and every Row has exactly len(schema)
\* attributes, named and ordered as the header schema of the view.
C3_PageRows ==
    (Handled("Page") /\ Attr(op.in, "Vid") = S("101")) =>
        LET schema == headerTokensForView(S("101"))
        IN  /\ Len(ret) = 1
            /\ ret[1].Tag = S("PageRes")
            /\ ret[1].PayloadXML.tag = S("PageRes")
            /\ LET el == ret[1].PayloadXML
               IN  /\ AttrVal(el.attrs, S("Count")) = FormatUint(Len(el.children))
                   /\ \A i \in 1..Len(el.children) :
                          /\ el.children[i].tag = S("Row")
                          /\ Len(el.children[i].attrs) = Len(schema)
                          /\ AttrNames(el.children[i].attrs) = schema

\* A Page for view 101 has been answered with two rows, after a publish, a
\* location update and a delete had all happened.
C3_Witness ==
    /\ Handled("Page")
    /\ Attr(op.in, "Vid") = S("101")
    /\ Len(ret[1].PayloadXML.children) = 2
    /\ AttrVal(ret[1].PayloadXML.attrs, S("Count")) = S("2")
    /\ \E k \in DOMAIN hosts : hosts[k].location # <<>>

\* The Rid a RowPg request asks for.
AskedRid == IF Attr(op.in, "Rid") = <<>> THEN S("0") ELSE Attr(op.in, "Rid")

\* C4: in every reachable state of the store, a RowPg request whose row id is
\* that of no HostSession in the store is answered with exactly one RowPgRes
\* frame with success status and Count="0".
C4_RowPgMiss ==
    (/\ Handled("RowPg")
     /\ ~hostNil
     /\ \A k \in DOMAIN hosts : FormatUint(hosts[k].rid) # AskedRid) =>
        /\ Len(ret) = 1
        /\ ret[1].Tag = S("RowPgRes")
        /\ ret[1].PayloadXML.tag = S("RowPgRes")
        /\ AttrVal(ret[1].PayloadXML.attrs, S("HR")) = S("0x00000000")
        /\ AttrVal(ret[1].PayloadXML.attrs, S("Count")) = S("0")
        /\ ret[1].PayloadXML.children = <<>>

\* RowPg has missed in a store that holds two sessions.
C4_Witness ==
    /\ Handled("RowPg")
    /\ ~hostNil
    /\ Cardinality(DOMAIN hosts) = 2
    /\ AskedRid = <<"0", "1">>
    /\ \A k \in DOMAIN hosts : FormatUint(hosts[k].rid) # AskedRid
    /\ AttrVal(ret[1].PayloadXML.attrs, S("Count")) = S("0")

Items(in) == scanSelfClosingElements(in.Raw, "Item")

\* Every item of the list is an upsert: it names its ItemId.
UpsertOnly(items) ==
    /\ Len(items) > 0
    /\ \A i \in 1..Len(items) : Get(items[i], "ItemId") # <<>>

\* C7: publishing an upsert payload again, unchanged, changes nothing: the
\* sessions in the store, the rowId of the peer's session and every session
\* and player field are what they were after the first publish.
C7_RepublishIdempotent ==
    [][(/\ ~hostNil
        /\ Handled("HostData")
        /\ UpsertOnly(Items(op.in))
        /\ op'.name = "Handle"
        /\ op'.in = op.in
        /\ op'.from = op.from) => hosts' = hosts]_vars

\* A payload with a game item and a player item has been published to a
\* session that already held exactly its fields.
C7_Witness ==
    /\ ~hostNil
    /\ Handled("HostData")
    /\ op.in.Raw = RawOf(<<ItemGame, ItemPlayer>>)
    /\ op.from \in DOMAIN prev.hosts
    /\ hosts = prev.hosts
    /\ ApplyHostData([hosts |-> prev.hosts, nextRid |-> prev.nextRid], op.from, op.in.Raw).hosts
           = hosts

\* C8: a publish of the delete-shape item with value "0" by a peer whose
\* session is visible takes the session out of rows() and lowers
\* visibleCount() by exactly one; if the session has no player fields, the
\* HostSession leaves the store and rowById of its former rowId is not-found.
C8_DeleteRemoves ==
    (/\ ~hostNil
     /\ Handled("HostData")
     /\ op.in.Raw = RawOf(<<ItemDel0>>)
     /\ op.from \in DOMAIN prev.hosts
     /\ Visible(prev.hosts[op.from])) =>
        /\ op.from \in DOMAIN hosts => ~Visible(hosts[op.from])
        /\ Len(GamesRows(hosts, 0, <<>>)) = Len(GamesRows(prev.hosts, 0, <<>>)) - 1
        /\ VisibleGamesCount(hosts) = VisibleGamesCount(prev.hosts) - 1
        /\ DOMAIN prev.hosts[op.from].players = {} =>
               /\ op.from \notin DOMAIN hosts
               /\ RowByRid(hosts, FormatUint(prev.hosts[op.from].rid), <<>>) = {NotFound}

\* A visible session without player fields has been deleted while the other
\* peer's session carries the same rowId.
C8_Witness ==
    /\ ~hostNil
    /\ Handled("HostData")
    /\ op.in.Raw = RawOf(<<ItemDel0>>)
    /\ op.from \in DOMAIN prev.hosts
    /\ Visible(prev.hosts[op.from])
    /\ DOMAIN prev.hosts[op.from].players = {}
    /\ op.from \notin DOMAIN hosts
    /\ \E k \in DOMAIN hosts : hosts[k].rid = prev.hosts[op.from].rid

\* C9: the first rowId of a fresh store is 1; until the allocator wraps,
\* every new session gets a rowId larger than each one assigned before; every
\* rowId r assigned satisfies 1 <= r < 2^31 - 1, also when the allocator is at
\* the boundary or next to it.
C9_RowIdRange ==
    /\ \A k \in DOMAIN hosts : 1 <= hosts[k].rid /\ hosts[k].rid < 2147483647
    /\ lastRid # 0 => 1 <= lastRid /\ lastRid < 2147483647
    /\ (op.name = "Handle" /\ prev.lastRid = 0 /\ lastRid # 0) => lastRid = 1
    /\ (op.name = "Handle" /\ nextRid # prev.nextRid) =>
           \/ lastRid > prev.lastRid
           \/ prev.nextRid >= 2147483647 /\ lastRid = 1

\* A session has been created with the allocator at the boundary.
C9_Witness ==
    /\ op.name = "Handle"
    /\ prev.nextRid = 2147483647
    /\ nextRid = 2
    /\ op.from \in DOMAIN hosts
    /\ op.from \notin DOMAIN prev.hosts
    /\ hosts[op.from].rid = 1

----------------------------------------------------------------------------
(* The host store on its own, with published address lists and observed    *)
(* addresses.                                                              *)

\* A routable observed address, and blank text, which SetObservedRemoteIP
\* ignores.
ObservedIPs == {S("198.51.100.7"), S(" ")}

Ip2Lists ==
    {<<"203.0.113.9", " ", "198.51.100.11">>,
     <<"203.0.113.9", " ", "203.0.113.9", " ", "198.51.100.11">>,
     <<"192.168.1.2", ",", "203.0.113.9">>,
     <<"192.168.1.2">>,
     <<"198.51.100.7">>}

\* The IpAddr attribute of a game item: none, or a private address.
IpAddrAttrs == {<<>>, << <<"IpAddr", S("10.0.0.5")>> >>}

GameItem(ipAddr, ip2) ==
    Tag("Item", TRUE, << <<"ItemId", S("0")>>, <<"GName", S("Test Game")>>,
                         <<"Map", S("Test Map")>> >> \o ipAddr \o << <<"Ip2", ip2>> >>)

\* The end of a call on the store alone; sessions are created while nextRid
\* is at most MaxRid + 1.
DoneAddr(o, st, r) ==
    /\ st.nextRid # nextRid => nextRid <= MaxRid + 1
    /\ op' = o
    /\ prev' = Before
    /\ ret' = r
    /\ hosts' = st.hosts
    /\ nextRid' = st.nextRid
    /\ lastRid' = IF st.nextRid # nextRid THEN st.nextRid - 1 ELSE lastRid
    /\ lastObserved' = IF o.name = "SetObservedRemoteIP" /\ TrimSpace(o.ip) # <<>>
                       THEN [lastObserved EXCEPT ![o.from] = TrimSpace(o.ip)]
                       ELSE lastObserved
    /\ UNCHANGED <<port, hostNil, mu, playerStore, clock>>
    /\ UNCHANGED loopVars

AddrPublish ==
    \E from \in Peers, ipAddr \in IpAddrAttrs, ip2 \in Ip2Lists :
        LET raw == RawOf(<<GameItem(ipAddr, ip2)>>)
        IN  DoneAddr([name |-> "ApplyHostData", from |-> from, payload |-> raw],
                     ApplyHostData(Store, from, raw), <<>>)

AddrDelete ==
    \E from \in Peers :
        LET raw == RawOf(<<ItemDel0>>)
        IN  DoneAddr([name |-> "ApplyHostData", from |-> from, payload |-> raw],
                     ApplyHostData(Store, from, raw), <<>>)

AddrObserve ==
    \E from \in Peers, ip \in ObservedIPs :
        DoneAddr([name |-> "SetObservedRemoteIP", from |-> from, ip |-> ip],
                 SetObservedRemoteIP(Store, from, ip), <<>>)

AddrRows ==
    DoneAddr([name |-> "GamesRows"], Store, GamesRows(hosts, 0, <<>>))

AddrRows2 ==
    DoneAddr([name |-> "GamesRows2"], Store, GamesRows2(hosts, 0, <<>>))

AddrRowByRid2 ==
    \E rid \in {FormatUint(1), FormatUint(2)} : \E res \in RowByRid2(hosts, rid, <<>>) :
        DoneAddr([name |-> "RowByRid2", rid |-> rid], Store, res)

NextAddr ==
    \/ AddrPublish
    \/ AddrDelete
    \/ AddrObserve
    \/ AddrRows
    \/ AddrRows2
    \/ AddrRowByRid2

SpecAddr == Init /\ [][NextAddr]_vars

\* The tokens of a published address list: it is split at commas and white
\* space.
Tokens(list) == FieldsFunc(list, {",", " ", "\t", "\r", "\n"})

RECURSIVE FirstDiffering(_, _, _)
FirstDiffering(toks, i, primary) ==
    IF i > Len(toks) THEN primary
    ELSE IF toks[i] # primary THEN toks[i]
    ELSE FirstDiffering(toks, i + 1, primary)

\* C5: with no observed address for the peer, after one upsert item "0" with
\* a game name, a map name and an address list has been published, rows() is
\* exactly one row; its game name and map are the published ones, its primary
\* address is the first token of the list and its secondary address the first
\* later token that differs from the primary (the primary when there is none).
C5_PublishedAddresses ==
    (/\ op.name = "GamesRows"
     /\ Cardinality(DOMAIN hosts) = 1
     /\ \A k \in DOMAIN hosts :
            /\ hosts[k].observedRemoteIP = <<>>
            /\ DOMAIN hosts[k].server = {"GName", "Map", "Ip2"}
            /\ DOMAIN hosts[k].players = {}
            /\ Tokens(hosts[k].server["Ip2"]) # <<>>) =>
        /\ Len(ret) = 1
        /\ \A k \in DOMAIN hosts :
               LET toks == Tokens(hosts[k].server["Ip2"])
               IN  /\ Get(ret[1].Items, "GName") = hosts[k].server["GName"]
                   /\ Get(ret[1].Items, "Map") = hosts[k].server["Map"]
                   /\ Get(ret[1].Items, "IpAddr") = toks[1]
                   /\ Get(ret[1].Items, "Ip2") = FirstDiffering(toks, 2, toks[1])

\* rows() has run on a store that holds one session, published with the
\* list "203.0.113.9 203.0.113.9 198.51.100.11".
C5_Witness ==
    /\ op.name = "GamesRows"
    /\ Cardinality(DOMAIN hosts) = 1
    /\ \A k \in DOMAIN hosts :
           /\ hosts[k].observedRemoteIP = <<>>
           /\ Get(hosts[k].server, "Ip2")
                  = <<"203.0.113.9", " ", "203.0.113.9", " ", "198.51.100.11">>
    /\ Len(ret) = 1
    /\ Get(ret[1].Items, "Ip2") = S("203.0.113.9")

Routable(a) ==
    LET ip == ParseIP(a) IN ip # <<>> /\ ~(ip[1] = 127) /\ ~IsPrivate(ip)

\* The addresses a session has published: its IpAddr field and the tokens of
\* its Ip2 list.
Published(h) ==
    {Tokens(Get(h.server, "Ip2"))[i] : i \in 1..Len(Tokens(Get(h.server, "Ip2")))}
        \cup ({TrimSpace(Get(h.server, "IpAddr"))} \ {<<>>})

RowsReturned ==
    IF op.name = "GamesRows2" THEN {ret[i] : i \in 1..Len(ret)}
    ELSE IF op.name = "RowByRid2" /\ ret.ok THEN {ret.row}
    ELSE {}

\* C6: when a session has a non-empty observed address, every row returned
\* for it, by rows or by rowById, has the observed address as its primary
\* address; its secondary address is a published routable (neither loopback
\* nor private) address other than the primary, or the primary itself; a
\* published private address other than the observed one is in no row.
C6_ObservedAddress ==
    \A r \in RowsReturned : \A k \in DOMAIN hosts :
        (FormatUint(hosts[k].rid) = r.Rid /\ hosts[k].observedRemoteIP # <<>>) =>
            LET obs == hosts[k].observedRemoteIP
                a1  == Get(r.Items, "IpAddr")
                a2  == Get(r.Items, "Ip2")
            IN  /\ a1 = obs
                /\ \/ a2 = a1
                   \/ a2 \in Published(hosts[k]) /\ Routable(a2) /\ a2 # a1
                /\ \A p \in Published(hosts[k]) :
                       (~Routable(p) /\ p # obs) => p \notin {a1, a2}

\* rows has returned the row of a session with an observed address that
\* published a private address and then a routable one.
C6_Witness ==
    /\ op.name = "GamesRows2"
    /\ \E i \in 1..Len(ret) : \E k \in DOMAIN hosts :
           /\ FormatUint(hosts[k].rid) = ret[i].Rid
           /\ hosts[k].observedRemoteIP = S("198.51.100.7")
           /\ Get(hosts[k].server, "Ip2") = <<"192.168.1.2", ",", "203.0.113.9">>
           /\ Get(hosts[k].server, "IpAddr") = S("10.0.0.5")
           /\ Get(ret[i].Items, "IpAddr") = S("198.51.100.7")
           /\ Get(ret[i].Items, "Ip2") = S("203.0.113.9")

----------------------------------------------------------------------------
(* The player registry on its own. *)

\* The times a caller passes: the zero time and every tick.
Times == 0..MaxTime

\* The maxAge values of a sweep, in ticks.
MaxAges == {0, 1, 2}

DonePlayers(o, ps, r) ==
    /\ op' = o
    /\ prev' = Before
    /\ ret' = r
    /\ playerStore' = ps
    /\ UNCHANGED <<hosts, nextRid, port, hostNil, mu, lastObserved, clock, lastRid>>
    /\ UNCHANGED loopVars

PlayerUpsert ==
    \E d \in Peers, now \in Times :
        DonePlayers([name |-> "Upsert", dpnid |-> d, now |-> now],
                    Upsert(playerStore, d, now, clock), <<>>)

PlayerRemove ==
    \E d \in Peers :
        DonePlayers([name |-> "Remove", dpnid |-> d],
                    Remove(playerStore, d)[1], Remove(playerStore, d)[2])

PlayerCount == DonePlayers([name |-> "Count"], playerStore, Count(playerStore))

PlayerIsEvicted ==
    \E d \in Peers :
        DonePlayers([name |-> "IsEvicted", dpnid |-> d], playerStore, IsEvicted(playerStore, d))

PlayerTouchEvict ==
    \E d \in Peers, now \in Times :
        DonePlayers([name |-> "TouchEvict", dpnid |-> d, now |-> now],
                    TouchEvict(playerStore, d, now, clock)[1],
                    TouchEvict(playerStore, d, now, clock)[2])

PlayerSweepEvict ==
    \E now \in Times, maxAge \in MaxAges :
        DonePlayers([name |-> "SweepEvict", now |-> now, maxAge |-> maxAge],
                    SweepEvict(playerStore, now, maxAge, clock)[1],
                    SweepEvict(playerStore, now, maxAge, clock)[2])

\* The wall clock moves on.
Tick ==
    /\ clock < MaxTime
    /\ clock' = clock + 1
    /\ op' = [name |-> "Tick"]
    /\ prev' = Before
    /\ ret' = <<>>
    /\ UNCHANGED <<hosts, nextRid, port, hostNil, mu, lastObserved, playerStore, lastRid>>
    /\ UNCHANGED loopVars

NextPlayers ==
    \/ PlayerUpsert
    \/ PlayerRemove
    \/ PlayerCount
    \/ PlayerIsEvicted
    \/ PlayerTouchEvict
    \/ PlayerSweepEvict
    \/ Tick

SpecPlayers == Init /\ [][NextPlayers]_vars

\* The time a call works with: time.Now() when it was passed the zero time.
TimeOf(o) == IF o.now = 0 THEN clock ELSE o.now

\* What C10 says of the entries of a sweep for which `inScope` holds, and of
\* an upsert over an evicted entry.
SweepEvictsOld(inScope) ==
    /\ (op.name = "SweepEvict" /\ inScope) =>
           \A d \in DOMAIN prev.players :
               (/\ prev.players[d].EvictedAt = 0
                /\ TimeOf(op) - prev.players[d].ConnectedAt > op.maxAge) =>
                   /\ d \in DOMAIN playerStore
                   /\ playerStore[d].EvictedAt # 0
                   /\ d \in ret
                   /\ Count(playerStore) = Count(Del(playerStore, d))
    /\ (op.name = "Upsert" /\ IsEvicted(prev.players, op.dpnid)) =>
           /\ op.dpnid \in DOMAIN playerStore
           /\ playerStore[op.dpnid] = prev.players[op.dpnid]

C11_EvictionOneWay ==
    \A d \in DOMAIN prev.players :
        IsEvicted(prev.players, d) =>
            /\ op.name \in {"Upsert", "SweepEvict", "TouchEvict"} =>
                   /\ IsEvicted(playerStore, d)
                   /\ playerStore[d].EvictedAt = prev.players[d].EvictedAt
            /\ ~IsEvicted(playerStore, d) => op.name = "Remove" /\ op.dpnid = d

\* touchEvict has been called, at another time, for an entry that was
\* evicted already.
C11_Witness ==
    /\ op.name = "TouchEvict"
    /\ IsEvicted(prev.players, op.dpnid)
    /\ TimeOf(op) # prev.players[op.dpnid].EvictedAt
    /\ ret = FALSE
    /\ IsEvicted(playerStore, op.dpnid)

\* The entries a sweep at the time and with the maxAge of op is to evict:
\* not evicted, and of that age at least or without a connect time.
DueBefore ==
    {d \in DOMAIN prev.players :
        /\ prev.players[d].EvictedAt = 0
        /\ \/ prev.players[d].ConnectedAt = 0
           \/ TimeOf(op) - prev.players[d].ConnectedAt >= op.maxAge}

SweepExact ==
    (op.name = "SweepEvict" /\ op.maxAge > 0) =>
        /\ ret = DueBefore
        /\ DOMAIN playerStore = DOMAIN prev.players
        /\ \A d \in DOMAIN prev.players :
               playerStore[d] = IF d \in DueBefore
                                THEN [prev.players[d] EXCEPT !.EvictedAt = TimeOf(op)]
                                ELSE prev.players[d]

\* Two sweeps in a row with the same time and maxAge: the second returns
\* nothing.
SecondSweepEmpty ==
    (/\ op.name = "SweepEvict"
     /\ op'.name = "SweepEvict"
     /\ op.maxAge > 0
     /\ op'.maxAge = op.maxAge
     /\ op'.now = op.now) => ret' = {}

\* C37: sweepEvict(now, maxAge) with a positive maxAge marks evicted, at the
\* time of the sweep, exactly the entries that are not evicted and whose age
\* is maxAge or more or whose connect time is unset, and returns exactly
\* their ids; a younger entry is unchanged, an entry evicted before keeps its
\* eviction time and is not returned, and a second sweep at the same time
\* returns nothing.
C37_SweepExact == []SweepExact /\ [][SecondSweepEmpty]_vars

\* A sweep with maxAge 2 has evicted an entry of age 2 exactly, and has left
\* alone and not returned an entry that was evicted at an earlier time.
C37_Witness ==
    /\ op.name = "SweepEvict"
    /\ op.maxAge = 2
    /\ \E d, e \in DOMAIN prev.players :
           /\ prev.players[d].EvictedAt = 0
           /\ TimeOf(op) - prev.players[d].ConnectedAt = 2
           /\ playerStore[d].EvictedAt = TimeOf(op)
           /\ ret = {d}
           /\ prev.players[e].EvictedAt \notin {0, TimeOf(op)}
           /\ playerStore[e] = prev.players[e]

RemoveExact ==
    op.name = "Remove" =>
        /\ ret = (op.dpnid \in DOMAIN prev.players)
        /\ op.dpnid \notin DOMAIN playerStore
        /\ ~IsEvicted(playerStore, op.dpnid)
        /\ Count(playerStore) = Count(Del(prev.players, op.dpnid))
        /\ \A d \in Peers \ {op.dpnid} :
               /\ d \in DOMAIN playerStore <=> d \in DOMAIN prev.players
               /\ d \in DOMAIN playerStore => playerStore[d] = prev.players[d]

\* The call that follows remove(p): isEvicted(p) answers false, count()
\* counts the other active entries, upsert(p) makes an active entry with the
\* time of the call.
AfterRemove ==
    op.name = "Remove" =>
        /\ (op'.name = "IsEvicted" /\ op'.dpnid = op.dpnid) => ret' = FALSE
        /\ op'.name = "Count" =>
               ret' = Cardinality({d \in (DOMAIN playerStore) \ {op.dpnid} :
                                      playerStore[d].EvictedAt = 0})
        /\ (op'.name = "Upsert" /\ op'.dpnid = op.dpnid) =>
               /\ op.dpnid \in DOMAIN playerStore'
               /\ playerStore'[op.dpnid] =
                      [DPNID |-> op.dpnid,
                       ConnectedAt |-> IF op'.now = 0 THEN clock ELSE op'.now,
                       EvictedAt |-> 0]

\* C38: remove(p) returns true exactly when the registry had an entry for p,
\* active or evicted; after it there is no entry for p: isEvicted(p) is false,
\* count() does not count p, and an upsert(p) that follows makes a fresh
\* active entry, even when p was evicted before the removal.
C38_RemoveExact == []RemoveExact /\ [][AfterRemove]_vars

\* An evicted entry has been removed: remove returned true and the entry is
\* gone.
C38_Witness ==
    /\ op.name = "Remove"
    /\ IsEvicted(prev.players, op.dpnid)
    /\ ret = TRUE
    /\ op.dpnid \notin DOMAIN playerStore

----------------------------------------------------------------------------
(* The host store of host_store.go on its own: sessions that hold any part *)
(* of the game fields, and rows() with every cap.                          *)

ItemGName == Tag("Item", TRUE, << <<"ItemId", S("0")>>, <<"GName", S("Test Game")>> >>)

ItemMap == Tag("Item", TRUE, << <<"ItemId", S("0")>>, <<"Map", S("Test Map")>> >>)

ItemIp2 == Tag("Item", TRUE, << <<"ItemId", S("0")>>, <<"Ip2", AddrList>> >>)

StoreItems == {ItemGName, ItemMap, ItemIp2, ItemDel0}

StoreItemLists == UNION {[1..n -> StoreItems] : n \in 0..MaxItems}

\* The maxRows of a rows() call: below 0, 0, and up to one more than there
\* are peers.
RowCaps == -1..(Cardinality(Peers) + 1)

StoreApplyHostData ==
    \E from \in Peers, l \in StoreItemLists :
        DoneAddr([name |-> "ApplyHostData", from |-> from, payload |-> RawOf(l)],
                 ApplyHostData(Store, from, RawOf(l)), <<>>)

StoreSetLoc ==
    \E from \in Peers :
        DoneAddr([name |-> "SetLoc", from |-> from],
                 SetLoc(Store, from, S("STAGING AREA=test game")), <<>>)

StoreGamesRows ==
    \E maxRows \in RowCaps :
        DoneAddr([name |-> "GamesRows", maxRows |-> maxRows], Store,
                 GamesRows(hosts, maxRows, <<>>))

StoreVisibleGamesCount ==
    DoneAddr([name |-> "VisibleGamesCount"], Store, VisibleGamesCount(hosts))

StoreRowByRid ==
    \E rid \in {FormatUint(1), FormatUint(2)} : \E res \in RowByRid(hosts, rid, <<>>) :
        DoneAddr([name |-> "RowByRid", rid |-> rid], Store, res)

NextStore ==
    \/ StoreApplyHostData
    \/ StoreSetLoc
    \/ StoreGamesRows
    \/ StoreVisibleGamesCount
    \/ StoreRowByRid

\* The store of the engine that has one.
InitStore == Init /\ ~hostNil

SpecStore == InitStore /\ [][NextStore]_vars

\* The peers whose session has a non-empty game name, map name or Ip2.
Listed ==
    {k \in DOMAIN hosts :
        \E f \in {"GName", "Map", "Ip2"} :
            f \in DOMAIN hosts[k].server /\ hosts[k].server[f] # <<>>}

\* C12: in every reachable state of the store, a HostSession is in rows(0) if
\* and only if one of its session fields GName, Map and Ip2 is non-empty, and
\* visibleCount() is the number of rows of rows(0).
C12_VisibleIff ==
    LET rows == GamesRows(hosts, 0, <<>>)
    IN  /\ \A k \in DOMAIN hosts :
               (\E i \in 1..Len(rows) : rows[i].Rid = FormatUint(hosts[k].rid)) <=> k \in Listed
        /\ VisibleGamesCount(hosts) = Len(rows)
        /\ op.name = "VisibleGamesCount" => ret = Len(rows)
        /\ (op.name = "GamesRows" /\ op.maxRows = 0) => ret = rows

\* visibleCount() has returned 1 for a store of two sessions: one that holds
\* nothing but Ip2, one that holds nothing but its location.
C12_Witness ==
    /\ op.name = "VisibleGamesCount"
    /\ ret = 1
    /\ Cardinality(DOMAIN hosts) = 2
    /\ \E k \in DOMAIN hosts : DOMAIN hosts[k].server = {"Ip2"}
    /\ \E k \in DOMAIN hosts : DOMAIN hosts[k].server = {} /\ hosts[k].location # <<>>

\* The i-th of the listed peers in ascending order.
NthListed(i) == CHOOSE k \in Listed : Cardinality({j \in Listed : j < k}) = i - 1

\* C13: rows(maxRows) returns the visible sessions in strictly ascending
\* order of peer id, whatever the order they were created or updated in: all
\* of them when maxRows <= 0, and exactly the first min(maxRows,
\* visibleCount()) of that order when maxRows > 0.
C13_RowsOrder ==
    op.name = "GamesRows" =>
        LET all == Cardinality(Listed)
            n   == IF op.maxRows <= 0 THEN all
                   ELSE IF op.maxRows < all THEN op.maxRows ELSE all
        IN  /\ Len(ret) = n
            /\ \A i \in 1..n : ret[i].Rid = FormatUint(hosts[NthListed(i)].rid)

\* rows(1) has returned the row of peer 1 alone, from a store in which the
\* session of peer 2 is visible too and was created first.
C13_Witness ==
    /\ op.name = "GamesRows"
    /\ op.maxRows = 1
    /\ Listed = {1, 2}
    /\ hosts[2].rid < hosts[1].rid
    /\ Len(ret) = 1
    /\ ret[1].Rid = FormatUint(hosts[1].rid)

----------------------------------------------------------------------------
(* Properties of the engine's replies. *)

\* C14: every outbound frame the engine returns, for every inbound tag, every
\* attribute value, every store state and every engine, the one built without
\* a host store included, carries HR="0x00000000"; no failure status is emitted.
C14_AlwaysSuccess ==
    op.name = "Handle" =>
        \A i \in 1..Len(ret) :
            \A j \in 1..Len(ret[i].PayloadXML.attrs) :
                ret[i].PayloadXML.attrs[j][1] = S("HR") =>
                    ret[i].PayloadXML.attrs[j][2] = S("0x00000000")

\* The engine built without a host store has answered a RowPg request.
C14_Witness ==
    /\ Handled("RowPg")
    /\ hostNil
    /\ Len(ret) = 1
    /\ AttrVal(ret[1].PayloadXML.attrs, S("HR")) = S("0x80004005")

HandledTags ==
    {S("Connect"), S("HdrRow"), S("Page"), S("RowPg"), S("HostData"), S("SetLoc")}

C16_HostDataAck ==
    Handled("HostData") =>
        /\ Len(ret) = 1
        /\ ret[1].Tag = S("HostDataRes")
        /\ ret[1].PayloadXML.tag = S("HostDataRes")
        /\ ret[1].PayloadXML.children = <<>>
        /\ AttrVal(ret[1].PayloadXML.attrs, S("HR")) = S("0x00000000")
        /\ AttrVal(ret[1].PayloadXML.attrs, S("Cx")) = op.in.Attrs["Cx"]

\* A HostData whose only item is not self-closing, so that the store finds
\* no item in it, has been acknowledged.
C16_Witness ==
    /\ Handled("HostData")
    /\ op.in.Raw = RawOf(<<ItemOpen>>)
    /\ Items(op.in) = <<>>
    /\ Len(ret) = 1
    /\ AttrVal(ret[1].PayloadXML.attrs, S("Cx")) = S("0x7")

----------------------------------------------------------------------------
(* The frame codec, src/internal/proto/xmlish.go.                           *)
(* An inbound payload is kept as the text of its first element, a sequence  *)
(* of atoms up to and with the first ">" (the whole text when it has none), *)
(* and the elements that follow it.  "\\0" is the NUL byte.  Every          *)
(* attribute name of the texts fed is one atom.                             *)

Payload(text, rest) == [text |-> text, rest |-> rest]

\* strings.IndexByte, counted from 1; 0 when c is not in s.
IndexOf(s, c) ==
    LET I == {i \in 1..Len(s) : s[i] = c}
    IN  IF I = {} THEN 0 ELSE CHOOSE i \in I : \A j \in I : i <= j

\* strings.IndexAny, counted from 1.
IndexAny(s, chars) ==
    LET I == {i \in 1..Len(s) : s[i] \in chars}
    IN  IF I = {} THEN 0 ELSE CHOOSE i \in I : \A j \in I : i <= j

\* strings.Index(s, "=\""), counted from 1.
IndexEqQuote(s) ==
    LET I == {i \in 1..(Len(s) - 1) : s[i] = "=" /\ s[i + 1] = "\""}
    IN  IF I = {} THEN 0 ELSE CHOOSE i \in I : \A j \in I : i <= j

RECURSIVE TrimRightNul(_)
TrimRightNul(s) ==
    IF s # <<>> /\ s[Len(s)] = "\\0" THEN TrimRightNul(SubSeq(s, 1, Len(s) - 1)) ELSE s

TrimSuffix(s, c) == IF s # <<>> /\ s[Len(s)] = c THEN SubSeq(s, 1, Len(s) - 1) ELSE s

\* The key="value" pairs the loop of Parse finds in the trimmed rest of the
\* head, in the order found.
RECURSIVE headPairs(_)
headPairs(rest) ==
    IF rest = <<>> THEN <<>>
    ELSE LET eq    == IndexEqQuote(rest)
             key   == TrimSpace(SubSeq(rest, 1, eq - 1))
             rest2 == SubSeq(rest, eq + 2, Len(rest))
             q     == IndexOf(rest2, "\"")
             val   == SubSeq(rest2, 1, q - 1)
             rest3 == TrimSpace(SubSeq(rest2, q + 1, Len(rest2)))
         IN  IF eq = 0 THEN <<>>
             ELSE IF q = 0 THEN <<>>
             ELSE <<<<IF key = <<>> THEN "" ELSE key[1], val>>>> \o headPairs(rest3)

\* attrs[key] = val for every pair with a key, a later pair over an earlier.
RECURSIVE headAttrs(_)
headAttrs(pairs) ==
    IF pairs = <<>> THEN EmptyMap
    ELSE LET init == headAttrs(SubSeq(pairs, 1, Len(pairs) - 1))
             kv   == pairs[Len(pairs)]
         IN  IF kv[1] # "" THEN Put(init, kv[1], kv[2]) ELSE init

\* Parse without the test for a missing ">": the head runs to the end.
ParseUnclosed(p) ==
    LET s     == TrimRightNul(TrimSpace(p.text))
        gt    == IndexOf(s, ">")
        end   == IF gt = 0 THEN Len(s) + 1 ELSE gt
        inner == SubSeq(s, 2, end - 1)
        head2 == TrimSpace(TrimSuffix(TrimSpace(inner), "/"))
        i     == IndexAny(head2, {" ", "\t", "\r", "\n"})
        tag   == IF i > 0 THEN SubSeq(head2, 1, i - 1) ELSE head2
        head3 == IF i > 0 THEN SubSeq(head2, i + 1, Len(head2)) ELSE <<>>
        pairs == headPairs(TrimSpace(head3))
        first == Tag(IF Len(tag) = 1 THEN tag[1] ELSE "", IndexOf(inner, "/") > 0, pairs)
    IN  IF s = <<>> \/ s[1] # "<" \/ head2 = <<>>
        THEN [ok |-> FALSE, text |-> <<>>, msg |-> Msg(<<>>, EmptyMap, <<>>)]
        ELSE [ok |-> TRUE, text |-> s,
              msg |-> Msg(tag, headAttrs(pairs), <<first>> \o p.rest)]

\* [ok, text, msg].  Raw is the text as its elements; text is the text of
\* Raw up to the end of p.text.
Parse(p) ==
    LET s0    == IF p.rest = <<>> THEN TrimSpace(p.text) ELSE TrimLeft(p.text)
        s     == IF p.rest = <<>> THEN TrimRightNul(s0) ELSE s0
        end   == IndexOf(s, ">")
        inner == SubSeq(s, 2, end - 1)
        head1 == TrimSpace(inner)
        head2 == TrimSpace(TrimSuffix(head1, "/"))
        i     == IndexAny(head2, {" ", "\t", "\r", "\n"})
        tag   == IF i > 0 THEN SubSeq(head2, 1, i - 1) ELSE head2
        head3 == IF i > 0 THEN SubSeq(head2, i + 1, Len(head2)) ELSE <<>>
        pairs == headPairs(TrimSpace(head3))
        first == Tag(IF Len(tag) = 1 THEN tag[1] ELSE "", IndexOf(inner, "/") > 0, pairs)
        none  == [ok |-> FALSE, text |-> <<>>, msg |-> Msg(<<>>, EmptyMap, <<>>)]
    IN  IF s0 = <<>> \/ s0[1] # "<" THEN none
        ELSE IF end = 0 THEN none
        ELSE IF head1 = <<>> THEN none
        ELSE IF head2 = <<>> THEN none
        ELSE IF tag = <<>> THEN none
        ELSE [ok |-> TRUE, text |-> s,
              msg |-> Msg(tag, headAttrs(pairs), <<first>> \o p.rest)]

RECURSIVE TrimRightCRLF(_)
TrimRightCRLF(s) ==
    IF s # <<>> /\ s[Len(s)] \in {"\r", "\n"}
    THEN TrimRightCRLF(SubSeq(s, 1, Len(s) - 1))
    ELSE s

MakeZTextNoTrim(s) == s \o <<"\\0">>

\* The payload's bytes: the text without its trailing CR and LF, then one NUL.
MakeZText(s) == TrimRightCRLF(s) \o <<"\\0">>

\* The text the handlers spell for an element: name="value" attributes
\* after the tag, " />" at the end of an element without children.
RECURSIVE attrsText(_)
attrsText(attrs) ==
    IF attrs = <<>> THEN <<>>
    ELSE <<" ">> \o attrs[1][1] \o <<"=", "\"">> \o attrs[1][2] \o <<"\"">>
             \o attrsText(Tail(attrs))

RECURSIVE childrenText(_)
childrenText(children) ==
    IF children = <<>> THEN <<>>
    ELSE <<"<">> \o children[1].tag \o attrsText(children[1].attrs) \o <<" ", "/", ">">>
             \o childrenText(Tail(children))

xmlText(e) ==
    <<"<">> \o e.tag \o attrsText(e.attrs)
        \o (IF e.children = <<>> THEN <<" ", "/", ">">>
            ELSE <<">">> \o childrenText(e.children) \o <<"<", "/">> \o e.tag \o <<">">>)

----------------------------------------------------------------------------
(* The transport event loop, src/internal/dp8/engine.go: Run, handleEvent,  *)
(* sendWorker and playerSweeper over the engine main builds, with a host   *)
(* store and a player registry.  clientRemote and lastIndicate feed the    *)
(* log alone and are left out.  A tick of the clock is six hours here.     *)

\* The capacity of outQ in the model (2048 in NewEngine).
OutQCap == 2

\* A flag word is kept as the set of the positions of its bits.
dpnSendSync == {31}

dpnSendGuaranteed == {3}

dpnSendSyncGuaranteed == dpnSendSync \cup dpnSendGuaranteed

\* 12 * time.Hour, in ticks.
maxPlayerOnlineAge == 2

\* time.Now() as Unix seconds.
UnixOf(clk) == 1700000000 + clk * 21600

Event(msgID, dpnid, payload) == [MsgID |-> msgID, DPNID |-> dpnid, payload |-> payload]

HandleDropOnConnect(st, now, from, in) ==
    CASE in.Tag = S("Connect")  ->
            {<<[st EXCEPT !.hosts = Del(st.hosts, from)], handleConnect(port, now, in)>>}
      [] in.Tag = S("HdrRow")   -> {<<st, handleHdrRow(in)>>}
      [] in.Tag = S("Page")     -> {<<st, handlePage(hostNil, st.hosts, in)>>}
      [] in.Tag = S("RowPg")    -> {<<st, outs>> : outs \in handleRowPg(hostNil, st.hosts, in)}
      [] in.Tag = S("HostData") ->
            {<<IF hostNil THEN st ELSE ApplyHostData(st, from, in.Raw), handleHostData(in)>>}
      [] in.Tag = S("SetLoc")   ->
            {<<IF hostNil THEN st ELSE SetLoc(st, from, Attr(in, "Location")), handleSetLoc(in)>>}
      [] OTHER                  -> {<<st, handleFallback(in)>>}

\* Engine.Handle: the tag picks the handler.  The set of the pairs
\* <<store, frames>> the call can end with.
Handle(st, now, from, in) ==
    CASE in.Tag = S("Connect")  -> {<<st, handleConnect(port, now, in)>>}
      [] in.Tag = S("HdrRow")   -> {<<st, handleHdrRow(in)>>}
      [] in.Tag = S("Page")     -> {<<st, handlePage(hostNil, st.hosts, in)>>}
      [] in.Tag = S("RowPg")    -> {<<st, outs>> : outs \in handleRowPg(hostNil, st.hosts, in)}
      [] in.Tag = S("HostData") ->
            {<<IF hostNil THEN st ELSE ApplyHostData(st, from, in.Raw), handleHostData(in)>>}
      [] in.Tag = S("SetLoc")   ->
            {<<IF hostNil THEN st ELSE SetLoc(st, from, Attr(in, "Location")), handleSetLoc(in)>>}
      [] OTHER                  -> {<<st, handleFallback(in)>>}

\* handleEvent up to its last loop: the set of the [players, st, outs] the
\* event can leave, outs the frames still to be enqueued.
handleEvent(evt, ps, st, clk) ==
    LET ps1  == CASE evt.MsgID = "CREATE_PLAYER"  -> Upsert(ps, evt.DPNID, clk, clk)
                  [] evt.MsgID = "DESTROY_PLAYER" -> Remove(ps, evt.DPNID)[1]
                  [] OTHER                        -> ps
        text == evt.payload.text
        none == {[players |-> ps1, st |-> st, outs |-> <<>>]}
    IN  IF text = <<>> \/ text[1] # "<" THEN none
        ELSE IF IsEvicted(ps1, evt.DPNID) THEN none
        ELSE IF ~Parse(evt.payload).ok THEN none
        ELSE {[players |-> ps1, st |-> h[1], outs |-> h[2]] :
                 h \in Handle(st, UnixOf(clk), evt.DPNID, Parse(evt.payload).msg)}

flagsForAllGuaranteed(tag) == dpnSendGuaranteed

\* The flags of a frame: the connect bundle goes out SYNC|GUARANTEED.
flagsFor(tag) ==
    IF tag \in {S("ConnectRes"), S("ConInfoRes"), S("ConnectEv")}
    THEN dpnSendSyncGuaranteed
    ELSE dpnSendGuaranteed

outMsg(dpnid, out) ==
    [dpnid |-> dpnid, tag |-> out.Tag, exp |-> out.Exp, payloadXML |-> out.PayloadXML,
     flags |-> flagsFor(out.Tag)]

trySendDropOldest(q, m) == IF Len(q) < OutQCap THEN Append(q, m) ELSE Append(Tail(q), m)

\* select { case e.outQ <- m: default: }: the queue after it.
trySend(q, m) == IF Len(q) < OutQCap THEN Append(q, m) ELSE q

EnqueueReadyWhenRoom(q) == Len(q) < OutQCap

\* A select with a default case always has a case to take.
EnqueueReady(q) == TRUE

\* The payloads of RECEIVE events.
TextConnect ==
    <<"<", "Connect", " ", "Cx", "=", "\"", "0x123", "\"", "/", ">", "\\0">>

TextSetLoc ==
    <<"<", "SetLoc", " ", "Cx", "=", "\"", "0x0", "\"", " ", "Location", "=", "\"",
      "STAGING AREA=test game", "\"", "/", ">", "\\0">>

\* Texts that begin with "<" and do not parse: no ">", an empty head, a
\* head that is a slash alone.
BadTexts ==
    {<<"<", "Page", " ", "Cx", "=", "\"", "0x66", "\"", "\\0">>,
     <<"<", " ", ">", "\\0">>,
     <<"<", "/", ">">>}

RecvPayloads ==
    {Payload(TextConnect, <<>>), Payload(TextSetLoc, <<>>), Payload(<<"\\0", "binary">>, <<>>)}
        \cup {Payload(t, <<>>) : t \in BadTexts}

\* What the transport shim queues: the peer's URL with CREATE_PLAYER, no data
\* with DESTROY_PLAYER and TERMINATE_SESSION, the peer's bytes with RECEIVE.
LoopEvents ==
    {Event("CREATE_PLAYER", d, Payload(<<"x-directplay:/hostname=203.0.113.9;port=2302">>, <<>>)) :
        d \in Peers}
        \cup {Event("DESTROY_PLAYER", d, Payload(<<>>, <<>>)) : d \in Peers}
        \cup {Event("TERMINATE_SESSION", 0, Payload(<<>>, <<>>))}
        \cup {Event("RECEIVE", d, p) : d \in Peers, p \in RecvPayloads}

\* The engine of main.
InitLoop == Init /\ ~hostNil

\* One round of Run's loop: the context is not done, PopEvent hands an
\* event, handleEvent works through it up to the enqueuing of its frames.
LoopEvent ==
    /\ loopPc = "pop"
    /\ ~ctxDone
    /\ \E evt \in LoopEvents : \E r \in handleEvent(evt, playerStore, Store, clock) :
        /\ r.st.nextRid # nextRid => CanAllocate
        /\ op' = [name |-> "Event", evt |-> evt]
        /\ prev' = Before
        /\ ret' = r.outs
        /\ hosts' = r.st.hosts
        /\ nextRid' = r.st.nextRid
        /\ lastRid' = IF r.st.nextRid # nextRid THEN r.st.nextRid - 1 ELSE lastRid
        /\ playerStore' = r.players
        /\ pending' = [i \in 1..Len(r.outs) |-> [dpnid |-> evt.DPNID, out |-> r.outs[i]]]
        /\ loopPc' = IF r.outs = <<>> THEN "pop" ELSE "enqueue"
        /\ UNCHANGED <<port, hostNil, mu, lastObserved, clock, outQ, ctxDone, senderPc, sweeperPc>>

\* The body of handleEvent's last loop for one frame.
LoopEnqueue ==
    /\ loopPc = "enqueue"
    /\ EnqueueReady(outQ)
    /\ LET m == outMsg(pending[1].dpnid, pending[1].out)
       IN  /\ outQ' = trySend(outQ, m)
           /\ op' = [name |-> "Enqueue", msg |-> m]
    /\ prev' = Before
    /\ ret' = <<>>
    /\ pending' = Tail(pending)
    /\ loopPc' = IF Tail(pending) = <<>> THEN "pop" ELSE "enqueue"
    /\ UNCHANGED <<hosts, nextRid, lastRid, playerStore, port, hostNil, mu, lastObserved, clock,
                   ctxDone, senderPc, sweeperPc>>

\* PopEvent has no event: the loop sleeps and goes round.
LoopPopNone ==
    /\ loopPc = "pop"
    /\ ~ctxDone
    /\ op' = [name |-> "PopNone"]
    /\ prev' = Before
    /\ ret' = <<>>
    /\ UNCHANGED <<hosts, nextRid, lastRid, playerStore, port, hostNil, mu, lastObserved, clock>>
    /\ UNCHANGED loopVars

\* PopEvent fails: Run returns the error.
LoopPopFail ==
    /\ loopPc = "pop"
    /\ ~ctxDone
    /\ op' = [name |-> "PopFail"]
    /\ prev' = Before
    /\ ret' = <<>>
    /\ loopPc' = "returned"
    /\ UNCHANGED <<hosts, nextRid, lastRid, playerStore, port, hostNil, mu, lastObserved, clock,
                   outQ, pending, ctxDone, senderPc, sweeperPc>>

\* The loop finds the context done and Run returns.
LoopExit ==
    /\ loopPc = "pop"
    /\ ctxDone
    /\ op' = [name |-> "RunReturn"]
    /\ prev' = Before
    /\ ret' = <<>>
    /\ loopPc' = "returned"
    /\ UNCHANGED <<hosts, nextRid, lastRid, playerStore, port, hostNil, mu, lastObserved, clock,
                   outQ, pending, ctxDone, senderPc, sweeperPc>>

Loop == LoopEvent \/ LoopEnqueue \/ LoopPopNone \/ LoopPopFail \/ LoopExit

\* A sendWorker that waits for a full queue.
SenderSendWhenFull ==
    /\ senderPc = "select"
    /\ Len(outQ) = OutQCap
    /\ \E failed \in BOOLEAN :
        op' = [payload |-> MakeZText(xmlText(outQ[1].payloadXML)), name |-> "SendTo",
               tag |-> outQ[1].tag, dpnid |-> outQ[1].dpnid, flags |-> outQ[1].flags,
               err |-> failed]
    /\ prev' = Before
    /\ ret' = <<>>
    /\ outQ' = Tail(outQ)
    /\ UNCHANGED <<hosts, nextRid, lastRid, playerStore, port, hostNil, mu, lastObserved, clock,
                   pending, ctxDone, loopPc, senderPc, sweeperPc>>

\* A sendWorker that leaves the frame of a failed send at the head.
SenderSendRetry ==
    /\ senderPc = "select"
    /\ outQ # <<>>
    /\ \E failed \in BOOLEAN :
        /\ op' = [payload |-> MakeZText(xmlText(outQ[1].payloadXML)), name |-> "SendTo",
                  tag |-> outQ[1].tag, dpnid |-> outQ[1].dpnid, flags |-> outQ[1].flags,
                  err |-> failed]
        /\ outQ' = IF failed THEN outQ ELSE Tail(outQ)
    /\ prev' = Before
    /\ ret' = <<>>
    /\ UNCHANGED <<hosts, nextRid, lastRid, playerStore, port, hostNil, mu, lastObserved, clock,
                   pending, ctxDone, loopPc, senderPc, sweeperPc>>

\* sendWorker takes the oldest frame and hands it to the transport, whose
\* SendTo succeeds or fails (err); the error goes to the log.
SenderSend ==
    /\ senderPc = "select"
    /\ outQ # <<>>
    /\ \E failed \in BOOLEAN :
        op' = [payload |-> MakeZText(xmlText(outQ[1].payloadXML)), name |-> "SendTo",
               tag |-> outQ[1].tag, dpnid |-> outQ[1].dpnid, flags |-> outQ[1].flags,
               err |-> failed]
    /\ prev' = Before
    /\ ret' = <<>>
    /\ outQ' = Tail(outQ)
    /\ UNCHANGED <<hosts, nextRid, lastRid, playerStore, port, hostNil, mu, lastObserved, clock,
                   pending, ctxDone, loopPc, senderPc, sweeperPc>>

SenderExit ==
    /\ senderPc = "select"
    /\ ctxDone
    /\ op' = [name |-> "SenderReturn"]
    /\ prev' = Before
    /\ ret' = <<>>
    /\ senderPc' = "returned"
    /\ UNCHANGED <<hosts, nextRid, lastRid, playerStore, port, hostNil, mu, lastObserved, clock,
                   outQ, pending, ctxDone, loopPc, sweeperPc>>

Sender == SenderSend \/ SenderExit

\* The ticker of playerSweeper fires.
SweeperSweep ==
    /\ sweeperPc = "select"
    /\ op' = [name |-> "Sweep", now |-> clock,
              evicted |-> SweepEvict(playerStore, clock, maxPlayerOnlineAge, clock)[2]]
    /\ prev' = Before
    /\ ret' = <<>>
    /\ playerStore' = SweepEvict(playerStore, clock, maxPlayerOnlineAge, clock)[1]
    /\ UNCHANGED <<hosts, nextRid, lastRid, port, hostNil, mu, lastObserved, clock>>
    /\ UNCHANGED loopVars

SweeperExit ==
    /\ sweeperPc = "select"
    /\ ctxDone
    /\ op' = [name |-> "SweeperReturn"]
    /\ prev' = Before
    /\ ret' = <<>>
    /\ sweeperPc' = "returned"
    /\ UNCHANGED <<hosts, nextRid, lastRid, playerStore, port, hostNil, mu, lastObserved, clock,
                   outQ, pending, ctxDone, loopPc, senderPc>>

\* The shutdown signal cancels the context.
Cancel ==
    /\ ~ctxDone
    /\ ctxDone' = TRUE
    /\ op' = [name |-> "Cancel"]
    /\ prev' = Before
    /\ ret' = <<>>
    /\ UNCHANGED <<hosts, nextRid, lastRid, playerStore, port, hostNil, mu, lastObserved, clock,
                   outQ, pending, loopPc, senderPc, sweeperPc>>

NextLoop ==
    \/ LoopEvent
    \/ LoopEnqueue
    \/ LoopPopNone
    \/ LoopPopFail
    \/ LoopExit
    \/ SenderSend
    \/ SenderExit
    \/ SweeperSweep
    \/ SweeperExit
    \/ Cancel

SpecLoop == InitLoop /\ [][NextLoop]_vars

\* Every task that can take a step takes one in the end, and a select whose
\* Done case stays ready takes it in the end.
SpecLoopFair ==
    /\ SpecLoop
    /\ WF_vars(Loop)
    /\ WF_vars(Sender)
    /\ WF_vars(SweeperExit)

----------------------------------------------------------------------------
(* Properties of the event loop. *)

\* C17: the event loop never blocks when it enqueues an outbound frame: with
\* the queue full the frame is dropped and the frames queued are kept, the
\* queue never holds more than its capacity, and the loop goes on to the
\* remaining frames and then to the next transport event.
C17_EnqueueNeverBlocks ==
    /\ [](Len(outQ) <= OutQCap)
    /\ [](loopPc = "enqueue" => pending # <<>> /\ ENABLED LoopEnqueue)
    /\ [][(loopPc = "enqueue" /\ op'.name = "Enqueue") =>
             /\ op'.msg.dpnid = pending[1].dpnid
             /\ op'.msg.tag = pending[1].out.Tag
             /\ op'.msg.payloadXML = pending[1].out.PayloadXML
             /\ IF Len(outQ) >= OutQCap THEN outQ' = outQ ELSE outQ' = Append(outQ, op'.msg)
             /\ pending' = Tail(pending)
             /\ loopPc' = IF Len(pending) > 1 THEN "enqueue" ELSE "pop"]_vars
    /\ [](loopPc = "pop" /\ ~ctxDone => ENABLED LoopEvent)

\* The last frame of a bundle of three has been dropped at a full queue that
\* holds the two before it.
C17_Witness ==
    /\ op.name = "Enqueue"
    /\ op.msg.tag = S("ConnectEv")
    /\ Len(outQ) = OutQCap
    /\ outQ[1].tag = S("ConnectRes")
    /\ outQ[2].tag = S("ConInfoRes")
    /\ loopPc = "pop"

\* C18: every frame handed to the transport's send carries the flags its tag
\* fixes: SYNC|GUARANTEED (bits 31 and 3) for ConnectRes, ConInfoRes and
\* ConnectEv, GUARANTEED (bit 3) alone for every other frame; none goes
\* without the guaranteed bit.
C18_SendFlags ==
    op.name = "SendTo" =>
        /\ 3 \in op.flags
        /\ op.flags = IF op.tag \in {S("ConnectRes"), S("ConInfoRes"), S("ConnectEv")}
                      THEN {3, 31}
                      ELSE {3}
        /\ SubSeq(op.payload, 2, 1 + Len(op.tag)) = op.tag
        /\ op.payload[Len(op.payload)] = "\\0"

\* A ConnectEv has been sent SYNC|GUARANTEED.
C18_Witness ==
    /\ op.name = "SendTo"
    /\ op.tag = S("ConnectEv")
    /\ op.flags = {3, 31}

\* C19: once the context is cancelled, Run's loop, sendWorker and
\* playerSweeper each return in the end, whatever outQ holds.
C19_Shutdown ==
    ctxDone ~> (loopPc = "returned" /\ senderPc = "returned" /\ sweeperPc = "returned")

\* The three have returned and sendWorker has left a full queue behind.
C19_Witness ==
    /\ ctxDone
    /\ loopPc = "returned"
    /\ senderPc = "returned"
    /\ sweeperPc = "returned"
    /\ Len(outQ) = OutQCap

\* C20: an event whose payload begins with "<" and does not parse enqueues
\* no frame and leaves the host store and the player registry as they were,
\* and the loop is ready for the next event.
C20_ParseFailure ==
    /\ [](\A t \in BadTexts : ~Parse(Payload(t, <<>>)).ok)
    /\ [][(/\ op'.name = "Event"
           /\ op'.evt.payload.text # <<>>
           /\ Head(op'.evt.payload.text) = "<"
           /\ ~Parse(op'.evt.payload).ok) =>
             /\ ret' = <<>>
             /\ outQ' = outQ
             /\ pending' = <<>>
             /\ hosts' = hosts
             /\ nextRid' = nextRid
             /\ playerStore' = playerStore
             /\ loopPc' = "pop"]_vars

\* An unclosed <Page has come from a peer with a session, with a player
\* registered and a frame queued.
C20_Witness ==
    /\ op.name = "Event"
    /\ op.evt.MsgID = "RECEIVE"
    /\ op.evt.payload.text = <<"<", "Page", " ", "Cx", "=", "\"", "0x66", "\"", "\\0">>
    /\ op.evt.DPNID \in DOMAIN hosts
    /\ playerStore # EmptyMap
    /\ outQ # <<>>
    /\ ret = <<>>
    /\ loopPc = "pop"

----------------------------------------------------------------------------
(* The frame codec on its own: MakeZText and Parse over texts.              *)

\* The texts of at most MaxText atoms over a letter, CR, LF and NUL.
ZTexts == UNION {[1..n -> {"x", "\r", "\n", "\\0"}] : n \in 0..MaxText}

\* The attribute lists of the elements spelled: none, the two of a Connect,
\* a value with a space and "=" in it, a value with ">" in it.
PairLists ==
    {<<>>,
     << <<S("Cx"), S("0x123")>>, <<S("ProtoVer"), S("3.3")>> >>,
     << <<S("Location"), <<"STAGING", " ", "AREA", "=", "test">> >> >>,
     << <<S("Cx"), S("0x66")>>, <<S("Str"), <<"a", ">", "b">> >> >>}

\* A text spelled from an element: whitespace, "<", the tag, the pairs, the
\* end of the tag, the bytes after it.
Spelled(lead, tag, pairs, close, trail) ==
    [pairs |-> pairs,
     tag   |-> tag,
     text  |-> lead \o <<"<">> \o tag \o attrsText(pairs) \o close \o <<">">> \o trail]

SpelledTexts ==
    {Spelled(lead, tag, pairs, close, trail) :
        lead \in {<<>>, <<" ">>},
        tag \in {S("Connect"), <<>>},
        pairs \in PairLists,
        close \in {<<>>, <<"/">>, <<" ", "/">>},
        trail \in {<<>>, <<"\\0", "\\0">>, <<"\\0", " ">>, <<" ", "\\0">>}}

\* Texts that spell no element.
LooseTexts ==
    {<<>>, <<" ">>, <<"\\0">>, <<"x", "<", "a", ">">>, <<"\\0", "<", "a", ">">>,
     <<"<", "a">>, <<"<", "a", " ", "b", "=", "\"", "1", "\"", "\\0">>}

DoneCodec(o, r) ==
    /\ op' = o
    /\ prev' = Before
    /\ ret' = r
    /\ UNCHANGED <<hosts, nextRid, lastRid, port, hostNil, mu, lastObserved, playerStore, clock>>
    /\ UNCHANGED loopVars

CodecMakeZText ==
    \E t \in ZTexts : DoneCodec([s |-> t, name |-> "MakeZText"], MakeZText(t))

CodecParse ==
    \E e \in SpelledTexts :
        DoneCodec([pairs |-> e.pairs, name |-> "Parse", tag |-> e.tag, text |-> e.text,
                   spelled |-> TRUE],
                  Parse(Payload(e.text, <<>>)))

CodecParseLoose ==
    \E t \in LooseTexts :
        DoneCodec([pairs |-> <<>>, name |-> "Parse", tag |-> <<>>, text |-> t,
                   spelled |-> FALSE],
                  Parse(Payload(t, <<>>)))

NextCodec ==
    \/ CodecMakeZText
    \/ CodecParse
    \/ CodecParseLoose

SpecCodec == Init /\ [][NextCodec]_vars

\* The number of NUL atoms of a text.
Nuls(t) == Cardinality({i \in 1..Len(t) : t[i] = "\\0"})

\* C21: MakeZText(s) is s without its trailing CR and LF characters, then
\* exactly one NUL: the output ends in the NUL, what precedes the NUL is
\* never CR or LF, and a text without trailing CR or LF only gains the NUL.
C21_MakeZText ==
    op.name = "MakeZText" =>
        LET s == op.s
            n == Len(ret)
        IN  /\ n >= 1
            /\ n - 1 <= Len(s)
            /\ ret[n] = "\\0"
            /\ SubSeq(ret, 1, n - 1) = SubSeq(s, 1, n - 1)
            /\ \A i \in n..Len(s) : s[i] \in {"\r", "\n"}
            /\ n > 1 => ret[n - 1] \notin {"\r", "\n"}
            /\ Nuls(ret) = Nuls(s) + 1
            /\ (s = <<>> \/ s[Len(s)] \notin {"\r", "\n"}) => ret = s \o <<"\\0">>

\* A text that ends in CR LF after a letter has been serialized.
C21_Witness ==
    /\ op.name = "MakeZText"
    /\ op.s = <<"x", "\r", "\n">>
    /\ ret = <<"x", "\\0">>

\* The text after trimming surrounding whitespace and trailing NUL bytes.
Trimmed(t) == TrimRightNul(TrimSpace(t))

\* The outer element of a trimmed text that has a ">": what stands between
\* the "<" and the first ">", without the whitespace around it and without
\* the "/" that ends it.
OuterOf(t) == TrimSpace(TrimSuffix(TrimSpace(SubSeq(t, 2, IndexOf(t, ">") - 1)), "/"))

\* The first whitespace-delimited token of a text.
FirstToken(h) ==
    LET i == IndexAny(h, {" ", "\t", "\r", "\n"})
    IN  IF i > 0 THEN SubSeq(h, 1, i - 1) ELSE h

\* C22: Parse fails exactly when the trimmed text does not begin with "<",
\* has no ">", or has an empty tag name; when it succeeds the tag is the
\* first whitespace-delimited token of the outer element, each key="value"
\* pair of the outer element is in the attribute map, and the raw text kept
\* has no trailing NUL.
C22_Parse ==
    op.name = "Parse" =>
        LET t    == Trimmed(op.text)
            fail == \/ t = <<>>
                    \/ t[1] # "<"
                    \/ IndexOf(t, ">") = 0
                    \/ FirstToken(OuterOf(t)) = <<>>
        IN  /\ ret.ok <=> ~fail
            /\ ret.ok =>
                /\ ret.msg.Tag = FirstToken(OuterOf(t))
                /\ op.tag # <<>> => ret.msg.Tag = op.tag
                /\ op.tag # <<>> =>
                       \A i \in 1..Len(op.pairs) :
                           /\ op.pairs[i][1][1] \in DOMAIN ret.msg.Attrs
                           /\ ret.msg.Attrs[op.pairs[i][1][1]] = op.pairs[i][2]
                /\ ret.text = t
                /\ ret.text[Len(ret.text)] # "\\0"

\* A request whose Str value holds a ">" has been parsed: the attribute
\* map has Cx and no Str.
C22_Witness ==
    /\ op.name = "Parse"
    /\ op.text = <<"<", "Connect", " ", "Cx", "=", "\"", "0x66", "\"", " ",
                   "Str", "=", "\"", "a", ">", "b", "\"", " ", "/", ">">>
    /\ ret.ok
    /\ DOMAIN ret.msg.Attrs = {"Cx"}

\* C22 for the texts whose attribute values hold no ">".
C22_ParseNoGtInValue ==
    (op.name = "Parse" /\ \A i \in 1..Len(op.pairs) : IndexOf(op.pairs[i][2], ">") = 0)
        => C22_Parse

----------------------------------------------------------------------------
(* Properties of ApplyHostData and of the rowId allocator.                  *)

\* A HostData request has been handled by an engine that has a host store.
HostDataApplied == Handled("HostData") /\ ~hostNil

\* The upsert shape: a non-empty ItemId.
IsUpsert(attrs) == Get(attrs, "ItemId") # <<>>

\* The delete shape: no ItemId, and Num as the only attribute.
IsDelete(attrs) ==
    Get(attrs, "ItemId") = <<>> /\ "Num" \in DOMAIN attrs /\ Cardinality(DOMAIN attrs) = 1

\* The fields of m hold every attribute of the item attrs but its ItemId.
HoldsFields(m, attrs) ==
    \A k \in (DOMAIN attrs) \ {"ItemId"} : k \in DOMAIN m /\ m[k] = attrs[k]

\* The session of peer `from` in hs holds the fields of the upsert item.
HoldsItem(hs, from, attrs) ==
    /\ from \in DOMAIN hs
    /\ IF attrs["ItemId"] = S("0")
       THEN HoldsFields(hs[from].server, attrs)
       ELSE /\ attrs["ItemId"] \in DOMAIN hs[from].players
            /\ HoldsFields(hs[from].players[attrs["ItemId"]], attrs)

LastItem(in) == Items(in)[Len(Items(in))]

\* C23: after a publish whose last item is an upsert-shape item, the store
\* holds a session for the peer with that item's fields, whatever items come
\* before it in the payload, delete-shape items that emptied the session
\* included.
C23_LastUpsertHeld ==
    (HostDataApplied /\ Items(op.in) # <<>> /\ IsUpsert(LastItem(op.in)))
        => HoldsItem(hosts, op.from, LastItem(op.in))

\* A peer without a session has published <Item Num="0"/> and the game item
\* in one payload.
C23_Witness ==
    /\ HostDataApplied
    /\ op.in.Raw = RawOf(<<ItemDel0, ItemGame>>)
    /\ op.from \notin DOMAIN prev.hosts
    /\ op.from \notin DOMAIN hosts

\* C23 for the payloads in which no item is of the delete shape.
C23_LastUpsertHeldNoDelete ==
    (HostDataApplied /\ \A i \in 1..Len(Items(op.in)) : ~IsDelete(Items(op.in)[i]))
        => C23_LastUpsertHeld

\* C24: no two sessions of the store have the same rowId, also after the
\* allocator has wrapped to 1.
C24_RowIdUnique ==
    \A p, q \in DOMAIN hosts : hosts[p].rid = hosts[q].rid => p = q

\* The allocator has wrapped and two sessions have rowId 1.
C24_Witness ==
    /\ ~hostNil
    /\ DOMAIN hosts = Peers
    /\ \A p \in Peers : hosts[p].rid = 1
    /\ nextRid = 2

----------------------------------------------------------------------------
(* Properties of RowByRid against GamesRows.                                *)

\* The rowIds of the rows of rows(0), as texts.
ListedRids == {GamesRows(hosts, 0, <<>>)[i].Rid : i \in 1..Len(GamesRows(hosts, 0, <<>>))}

\* C25: RowByRid reports found only for a visible session: whenever it
\* returns a row, rows(0) has a row with the same rowId, and a RowPg request
\* is answered with a row only then; a session that exists only through a
\* location update, player items or a cleared session item is never returned.
C25_FoundOnlyVisible ==
    ~hostNil =>
        /\ \A k \in DOMAIN hosts :
               \A res \in RowByRid(hosts, FormatUint(hosts[k].rid), <<>>) :
                   res.ok => res.row.Rid \in ListedRids
        /\ (Handled("RowPg") /\ ret[1].Exp = "send-rowpg-hit") => AskedRid \in ListedRids

\* RowPg has been answered with the row of a session that has a location
\* and no session fields.
C25_Witness ==
    /\ ~hostNil
    /\ Handled("RowPg")
    /\ ret[1].Exp = "send-rowpg-hit"
    /\ \E k \in DOMAIN hosts :
           /\ FormatUint(hosts[k].rid) = AskedRid
           /\ hosts[k].location # <<>>
           /\ DOMAIN hosts[k].server = {}
    /\ ListedRids = {}

\* The Row elements of the Page response for the view of the games.
PageRowElems ==
    handlePage(FALSE, hosts, Msg(S("Page"), [Vid |-> S("101")], <<>>))[1].PayloadXML.children

\* The Row elements RowPg may answer with for rowId rid in the same view.
RowPgRowElems(rid) ==
    {out[1].PayloadXML.children :
        out \in handleRowPg(FALSE, hosts, Msg(S("RowPg"), [Vid |-> S("101"), Rid |-> rid], <<>>))}

\* C26: for every visible session RowByRid of its rowId returns the Row that
\* rows(0) has for it (the same rowId text, the same items, the addresses
\* among them), and the Row element of a RowPg hit has the attributes, in
\* name and order, of the Row element of the Page response for the same view.
C26_RowByRidAsRows ==
    ~hostNil =>
        \A i \in 1..Len(GamesRows(hosts, 0, <<>>)) :
            LET r == GamesRows(hosts, 0, <<>>)[i]
            IN  /\ RowByRid(hosts, r.Rid, <<>>) = {[ok |-> TRUE, row |-> r]}
                /\ RowPgRowElems(r.Rid) = {<<PageRowElems[i]>>}

\* RowPg has been asked for the rowId of a visible session that another
\* session shares.
C26_Witness ==
    /\ ~hostNil
    /\ Handled("RowPg")
    /\ AskedRid \in ListedRids
    /\ Cardinality({k \in DOMAIN hosts : FormatUint(hosts[k].rid) = AskedRid}) = 2
    /\ Cardinality(RowByRid(hosts, AskedRid, <<>>)) = 2

\* C26 in the states in which the rowIds are distinct.
C26_RowByRidAsRowsDistinct == C24_RowIdUnique => C26_RowByRidAsRows

----------------------------------------------------------------------------
(* ApplyHostData item by item: sessions with several session fields and    *)
(* several players.                                                         *)

ItemTeam == Tag("Item", TRUE, << <<"ItemId", S("2")>>, <<"PTeam", S("t")>> >>)

ItemPlayer3 == Tag("Item", TRUE, << <<"ItemId", S("3")>>, <<"User", S("v")>> >>)

PublishItems ==
    {ItemGName, ItemMap, ItemPlayer, ItemTeam, ItemPlayer3, ItemDel0, ItemDel2, ItemOther}

\* Every item alone, the pairs in which a delete-shape item or an item of
\* neither shape comes first, and a delete between and after upserts.
PublishLists ==
    {<<i>> : i \in PublishItems}
        \cup {<<i, j>> : i \in {ItemDel0, ItemDel2, ItemOther},
                         j \in {ItemGName, ItemPlayer, ItemDel0, ItemDel2, ItemOther}}
        \cup {<<ItemDel0, ItemPlayer, ItemDel0>>, <<ItemPlayer, ItemDel0, ItemTeam>>}

\* What the second peer publishes: its sessions stand next to the first's.
OtherLists == {<<ItemGName>>, <<ItemDel0>>}

PublishApplyHostData ==
    \E from \in Peers : \E l \in IF from = 1 THEN PublishLists ELSE OtherLists :
        DoneAddr([name |-> "ApplyHostData", from |-> from, payload |-> RawOf(l)],
                 ApplyHostData(Store, from, RawOf(l)), <<>>)

PublishSetLoc ==
    \E from \in Peers \ {1} :
        DoneAddr([name |-> "SetLoc", from |-> from],
                 SetLoc(Store, from, S("STAGING AREA=test game")), <<>>)

NextPublish ==
    \/ PublishApplyHostData
    \/ PublishSetLoc

SpecPublish == InitStore /\ [][NextPublish]_vars

Applied == op.name = "ApplyHostData"

\* The items of the payload of the call.
AppliedItems == scanSelfClosingElements(op.payload, "Item")

\* The session ApplyHostData holds, and whether the store still maps the
\* peer to it, after the first i items of the payload.
LoopAt(i) ==
    applyItems([h |-> getOrCreateLocked([hosts |-> prev.hosts, nextRid |-> prev.nextRid],
                                        op.from).hosts[op.from],
                present |-> TRUE],
               SubSeq(AppliedItems, 1, i))

\* Map after is map before with every attribute of the item but its ItemId
\* set, and nothing else changed.
MergedInto(before, after, attrs) ==
    /\ DOMAIN after = (DOMAIN before) \cup ((DOMAIN attrs) \ {"ItemId"})
    /\ \A k \in DOMAIN after :
           after[k] = IF k \in (DOMAIN attrs) \ {"ItemId"} THEN attrs[k] ELSE before[k]

\* The sessions of the peers other than the caller are as they were.
OthersUnchanged ==
    \A q \in Peers \ {op.from} :
        /\ q \in DOMAIN hosts <=> q \in DOMAIN prev.hosts
        /\ q \in DOMAIN hosts => hosts[q] = prev.hosts[q]

\* The store has the session the loop ended with, or none for the peer.
StoreHasLoopEnd ==
    IF LoopAt(Len(AppliedItems)).present
    THEN op.from \in DOMAIN hosts /\ hosts[op.from] = LoopAt(Len(AppliedItems)).h
    ELSE op.from \notin DOMAIN hosts

\* C27: an upsert-shape item merges: with identifier "0" the session fields
\* of the peer's session in the store gain exactly the item's attributes but
\* the identifier, with another identifier that player's entry does (made if
\* absent); the fields not named, the other player entries, the rowId and the
\* sessions of the other peers stay as they are.
C27_UpsertMerges ==
    (Applied /\ AppliedItems # <<>>) =>
        /\ OthersUnchanged
        /\ StoreHasLoopEnd
        /\ \A i \in 1..Len(AppliedItems) :
               IsUpsert(AppliedItems[i]) =>
                   LET b  == LoopAt(i - 1).h
                       a  == LoopAt(i).h
                       it == AppliedItems[i]
                       id == it["ItemId"]
                   IN  /\ LoopAt(i).present
                       /\ a.rid = b.rid
                       /\ a.location = b.location
                       /\ IF id = S("0")
                          THEN /\ MergedInto(b.server, a.server, it)
                               /\ a.players = b.players
                          ELSE /\ a.server = b.server
                               /\ DOMAIN a.players = (DOMAIN b.players) \cup {id}
                               /\ MergedInto(Get(b.players, id), a.players[id], it)
                               /\ \A p \in (DOMAIN a.players) \ {id} :
                                      a.players[p] = b.players[p]

\* A peer whose session has a game name only has published <Item Num="0"/>
\* and the map item in one payload, and has no session.
C27_Witness ==
    /\ Applied
    /\ op.payload = RawOf(<<ItemDel0, ItemGName>>)
    /\ op.from \in DOMAIN prev.hosts
    /\ op.from \notin DOMAIN hosts

\* C27 for the payloads in which no item is of the delete shape.
C27_UpsertMergesNoDelete ==
    (Applied /\ \A i \in 1..Len(AppliedItems) : ~IsDelete(AppliedItems[i])) => C27_UpsertMerges

\* A team has been merged into a player entry that had a user, next to
\* another player and a session field.
C27_MergeSeen ==
    /\ Applied
    /\ op.payload = RawOf(<<ItemTeam>>)
    /\ op.from \in DOMAIN prev.hosts
    /\ S("2") \in DOMAIN prev.hosts[op.from].players
    /\ S("3") \in DOMAIN prev.hosts[op.from].players
    /\ DOMAIN prev.hosts[op.from].server # {}
    /\ DOMAIN hosts[op.from].players[S("2")] = {"User", "PTeam"}

\* The session has neither session fields nor player fields.
BothEmpty(h) == DOMAIN h.server = {} /\ DOMAIN h.players = {}

\* C28: a delete-shape item with a value other than "0" removes exactly that
\* player's entry of the peer's session and leaves the session fields and
\* the other player entries as they are; after any delete-shape item the
\* peer's session is out of the store if and only if its session fields and
\* its player fields are both empty.
C28_DeleteShape ==
    (Applied /\ AppliedItems # <<>>) =>
        /\ StoreHasLoopEnd
        /\ \A i \in 1..Len(AppliedItems) :
               IsDelete(AppliedItems[i]) =>
                   LET b   == LoopAt(i - 1)
                       a   == LoopAt(i)
                       num == AppliedItems[i]["Num"]
                   IN  /\ num # S("0") =>
                              /\ a.h.server = b.h.server
                              /\ DOMAIN a.h.players = (DOMAIN b.h.players) \ {num}
                              /\ \A p \in DOMAIN a.h.players : a.h.players[p] = b.h.players[p]
                       /\ num = S("0") =>
                              /\ DOMAIN a.h.server = {}
                              /\ a.h.players = b.h.players
                       /\ a.h.rid = b.h.rid
                       /\ b.present => (a.present <=> ~BothEmpty(a.h))
                       /\ ~b.present => ~a.present

\* <Item Num="2"/> has removed player 2 of a session that keeps player 3 and
\* a session field.
C28_Witness ==
    /\ Applied
    /\ op.payload = RawOf(<<ItemDel2>>)
    /\ op.from \in DOMAIN prev.hosts
    /\ DOMAIN prev.hosts[op.from].players = {S("2"), S("3")}
    /\ DOMAIN prev.hosts[op.from].server # {}
    /\ op.from \in DOMAIN hosts
    /\ DOMAIN hosts[op.from].players = {S("3")}
    /\ hosts[op.from].server = prev.hosts[op.from].server

\* C29: a publish whose items are all of neither shape leaves the host store
\* as it was: no session is created, no rowId is taken, no field changes.
C29_NeitherShapeNoChange ==
    (/\ Applied
     /\ AppliedItems # <<>>
     /\ \A i \in 1..Len(AppliedItems) :
            ~IsUpsert(AppliedItems[i]) /\ ~IsDelete(AppliedItems[i])) =>
        /\ hosts = prev.hosts
        /\ nextRid = prev.nextRid

\* A peer without a session has published <Item Num="1" Str="x"/> and has an
\* empty session with a rowId of its own.
C29_Witness ==
    /\ Applied
    /\ op.payload = RawOf(<<ItemOther>>)
    /\ op.from \notin DOMAIN prev.hosts
    /\ op.from \in DOMAIN hosts
    /\ BothEmpty(hosts[op.from])
    /\ hosts[op.from].rid = prev.nextRid
    /\ nextRid = prev.nextRid + 1

\* C29 for the peers that have a session.
C29_NeitherShapeNoChangeWithSession ==
    (Applied /\ op.from \in DOMAIN prev.hosts) => C29_NeitherShapeNoChange

\* C30: a publish of delete-shape items only, by a peer that has no session,
\* leaves the whole store as it was, the rowId allocator included: the next
\* session gets the rowId it would have got without the publish.
C30_DeleteOnlyNoChange ==
    (/\ Applied
     /\ AppliedItems # <<>>
     /\ \A i \in 1..Len(AppliedItems) : IsDelete(AppliedItems[i])
     /\ op.from \notin DOMAIN prev.hosts) =>
        /\ hosts = prev.hosts
        /\ nextRid = prev.nextRid

\* A peer without a session has published <Item Num="0"/>: the sessions are
\* as before and the allocator has moved on.
C30_Witness ==
    /\ Applied
    /\ op.payload = RawOf(<<ItemDel0>>)
    /\ op.from \notin DOMAIN prev.hosts
    /\ hosts = prev.hosts
    /\ nextRid = prev.nextRid + 1

\* C30 without the allocator: the sessions are as they were.
C30_DeleteOnlySessionsKept ==
    (/\ Applied
     /\ AppliedItems # <<>>
     /\ \A i \in 1..Len(AppliedItems) : IsDelete(AppliedItems[i])
     /\ op.from \notin DOMAIN prev.hosts) =>
        hosts = prev.hosts
----------------------------------------------------------------------------
(* The event loop with the clock running: handleEvent taken in two steps,   *)
(* the switch on the event kind with the eviction test and Parse, then the  *)
(* dispatch to the protocol engine, so that the sweeper's ticker can fire   *)
(* between the two as it can in engine.go.  Between the steps `pending`     *)
(* holds the parsed message, [dpnid, in, kind].  sendWorker is left to the  *)
(* specification SpecLoop: here the frames accepted stay in the queue.      *)

TextHostData == <<"<", "HostData", " ", "Cx", "=", "\"", "0x7", "\"", ">">>

TextHdrRow ==
    <<"<", "HdrRow", " ", "Cx", "=", "\"", "0x65", "\"", " ", "Vid", "=", "\"", "101", "\"",
      "/", ">", "\\0">>

TextPage ==
    <<"<", "Page", " ", "Cx", "=", "\"", "0x66", "\"", " ", "Vid", "=", "\"", "101", "\"",
      "/", ">", "\\0">>

TextRowPg ==
    <<"<", "RowPg", " ", "Cx", "=", "\"", "0x16", "\"", " ", "Vid", "=", "\"", "301", "\"",
      " ", "Rid", "=", "\"", "1", "\"", "/", ">", "\\0">>

TextFoo == <<"<", "Foo", "/", ">", "\\0">>

\* A publish of a game, and the delete of it.
PayloadUpsert == Payload(TextHostData, <<ItemGName>>)

PayloadDelete == Payload(TextHostData, <<ItemDel0>>)

\* <Item ItemId="0" GName=""/>: an upsert that blanks the name of the game.
ItemBlank == Tag("Item", TRUE, << <<"ItemId", S("0")>>, <<"GName", <<>> >> >>)

PayloadBlank == Payload(TextHostData, <<ItemBlank>>)

\* The remote address the shim hands with CREATE_PLAYER and INDICATE_CONNECT.
PayloadURL == Payload(<<"x-directplay:/hostname=203.0.113.9;port=2302">>, <<>>)

\* The application payloads of peer 1: one of every tag.
SessionPayloads ==
    {PayloadUpsert, PayloadDelete, PayloadBlank}
        \cup {Payload(t, <<>>) :
                 t \in {TextConnect, TextSetLoc, TextHdrRow, TextPage, TextRowPg, TextFoo}}

\* What PopEvent hands: every kind of event for peer 1, with the data the
\* shim of the repository attaches, a CREATE_PLAYER whose data begin with
\* "<", and a publish by peer 2.
SessionEvents ==
    {Event("CREATE_PLAYER", 1, p) : p \in {PayloadURL, PayloadUpsert}}
        \cup {Event("DESTROY_PLAYER", 1, Payload(<<>>, <<>>)),
              Event("TERMINATE_SESSION", 0, Payload(<<>>, <<>>)),
              Event("INDICATE_CONNECT", 0, PayloadURL),
              Event("CONNECT_COMPLETE", 0, Payload(<<>>, <<>>)),
              Event("RECEIVE", 2, PayloadUpsert)}
        \cup {Event("RECEIVE", 1, p) : p \in SessionPayloads}

eventHeadNoEvictionTest(evt, ps, clk) ==
    LET ps1  == CASE evt.MsgID = "CREATE_PLAYER"  -> Upsert(ps, evt.DPNID, clk, clk)
                  [] evt.MsgID = "DESTROY_PLAYER" -> Remove(ps, evt.DPNID)[1]
                  [] OTHER                        -> ps
        text == evt.payload.text
    IN  IF text = <<>> \/ text[1] # "<" THEN <<ps1, <<>> >>
        ELSE IF ~Parse(evt.payload).ok THEN <<ps1, <<>> >>
        ELSE <<ps1, <<[dpnid |-> evt.DPNID, in |-> Parse(evt.payload).msg,
                        kind |-> evt.MsgID]>> >>

\* handleEvent down to Parse: the pair <<players, parsed>>, parsed the
\* messages (none or one) that go on to the protocol engine.
eventHead(evt, ps, clk) ==
    LET ps1  == CASE evt.MsgID = "CREATE_PLAYER"  -> Upsert(ps, evt.DPNID, clk, clk)
                  [] evt.MsgID = "DESTROY_PLAYER" -> Remove(ps, evt.DPNID)[1]
                  [] OTHER                        -> ps
        text == evt.payload.text
    IN  IF text = <<>> \/ text[1] # "<" THEN <<ps1, <<>> >>
        ELSE IF IsEvicted(ps1, evt.DPNID) THEN <<ps1, <<>> >>
        ELSE IF ~Parse(evt.payload).ok THEN <<ps1, <<>> >>
        ELSE <<ps1, <<[dpnid |-> evt.DPNID, in |-> Parse(evt.payload).msg,
                        kind |-> evt.MsgID]>> >>

\* One round of Run's loop down to Parse.
SessionEvent ==
    /\ loopPc = "pop"
    /\ \E evt \in SessionEvents :
        LET r == eventHead(evt, playerStore, clock)
        IN  /\ op' = [name |-> "Event", evt |-> evt]
            /\ playerStore' = r[1]
            /\ pending' = r[2]
            /\ loopPc' = IF r[2] = <<>> THEN "pop" ELSE "handle"
    /\ prev' = Before
    /\ ret' = <<>>
    /\ UNCHANGED <<hosts, nextRid, lastRid, port, hostNil, mu, lastObserved, clock,
                   outQ, ctxDone, senderPc, sweeperPc>>

\* e.proto.Handle on the parsed message; its frames wait to be enqueued.
SessionHandle ==
    /\ loopPc = "handle"
    /\ \E h \in Handle(Store, UnixOf(clock), pending[1].dpnid, pending[1].in) :
        /\ h[1].nextRid # nextRid => CanAllocate
        /\ op' = [name |-> "Dispatch", dpnid |-> pending[1].dpnid, in |-> pending[1].in,
                  kind |-> pending[1].kind]
        /\ ret' = h[2]
        /\ hosts' = h[1].hosts
        /\ nextRid' = h[1].nextRid
        /\ lastRid' = IF h[1].nextRid # nextRid THEN h[1].nextRid - 1 ELSE lastRid
        /\ pending' = [i \in 1..Len(h[2]) |-> [dpnid |-> pending[1].dpnid, out |-> h[2][i]]]
        /\ loopPc' = IF h[2] = <<>> THEN "pop" ELSE "enqueue"
    /\ prev' = Before
    /\ UNCHANGED <<playerStore, port, hostNil, mu, lastObserved, clock, outQ, ctxDone, senderPc, sweeperPc>>

NextSession ==
    \/ SessionEvent
    \/ SessionHandle
    \/ LoopEnqueue
    \/ SweeperSweep
    \/ Tick

SpecSession == InitLoop /\ [][NextSession]_vars

----------------------------------------------------------------------------
(* Properties of the event loop with peers that come, go and are evicted. *)

BeginsWithLt(p) == p.text # <<>> /\ p.text[1] = "<"

C31_OnlyReceiveParsedNoMarkup ==
    (op.name = "Event" /\ op.evt.MsgID # "RECEIVE" /\ ~BeginsWithLt(op.evt.payload)) =>
        loopPc = "pop" /\ pending = <<>> /\ hosts = prev.hosts
\* An application payload of peer op.evt.DPNID has been taken from the
\* transport.
Received == op.name = "Event" /\ op.evt.MsgID = "RECEIVE" /\ BeginsWithLt(op.evt.payload)

\* C32: when the peer is evicted at the time the loop handles an application
\* payload of its, the payload is neither parsed nor dispatched, whatever its
\* tag: nothing waits to be enqueued, and the host store and the player
\* registry are as they were.
C32_EvictedDropped ==
    (Received /\ IsEvicted(prev.players, op.evt.DPNID)) =>
        /\ loopPc = "pop"
        /\ pending = <<>>
        /\ hosts = prev.hosts
        /\ nextRid = prev.nextRid
        /\ playerStore = prev.players

\* Peer 1, evicted and without a session, has sent a publish of a game that
\* the store had room for, and has none still.
C32_Witness ==
    /\ Received
    /\ op.evt.DPNID = 1
    /\ op.evt.payload = PayloadUpsert
    /\ IsEvicted(prev.players, 1)
    /\ 1 \notin DOMAIN hosts
    /\ CanAllocate
    /\ loopPc = "pop"
\* The peer whose message or frames the loop has in hand is evicted.
InHandEvicted == pending # <<>> /\ IsEvicted(playerStore, pending[1].dpnid)

\* C33: with the sweeper running beside the loop, once a sweep has marked a
\* peer evicted no frame addressed to it is accepted into the queue and the
\* host store is not changed on its behalf, until the peer is removed from
\* the registry.
C33_NothingAfterEviction ==
    [][/\ (loopPc = "enqueue" /\ InHandEvicted) => outQ' = outQ
       /\ (loopPc = "handle" /\ InHandEvicted) => hosts' = hosts /\ nextRid' = nextRid]_vars

\* A frame for a peer that a sweep had evicted by then has been accepted
\* into the empty queue.
C33_Witness ==
    /\ op.name = "Enqueue"
    /\ IsEvicted(prev.players, op.msg.dpnid)
    /\ outQ = <<op.msg>>

\* The publish of a peer that a sweep had evicted by then has given the peer
\* a session.
C33_StoreChanged ==
    /\ op.name = "Dispatch"
    /\ IsEvicted(prev.players, op.dpnid)
    /\ op.dpnid \notin DOMAIN prev.hosts
    /\ op.dpnid \in DOMAIN hosts
\* rows() has the row of the session of peer p.
InRows(hs, p) ==
    /\ p \in DOMAIN hs
    /\ \E i \in 1..Len(GamesRows(hs, 0, <<>>)) :
           GamesRows(hs, 0, <<>>)[i].Rid = FormatUint(hs[p].rid)

\* The last step has handed a HostData of peer p to the protocol engine.
PublishedBy(p) == op.name = "Dispatch" /\ op.dpnid = p /\ op.in.Tag = S("HostData")

HasDeleteItem(raw) ==
    \E i \in 1..Len(scanSelfClosingElements(raw, "Item")) :
        IsDelete(scanSelfClosingElements(raw, "Item")[i])

\* Only the HostData and SetLoc handlers change the host store: every other
\* step (an event of any kind, a sweep, a request with another tag, an
\* enqueue, a tick) leaves every session and the allocator as they were.
OnlyPublishesChange ==
    (hosts # prev.hosts \/ nextRid # prev.nextRid) =>
        op.name = "Dispatch" /\ op.in.Tag \in {S("HostData"), S("SetLoc")}

\* C34 as stated: the host store is changed by HostData and SetLoc requests
\* only, so a session that rows() lists stays listed, whether its peer has
\* disconnected or been evicted, until a publish with a delete-shape item
\* arrives under the same peer id.
C34_StaleUntilDelete ==
    /\ OnlyPublishesChange
    /\ \A p \in Peers :
           (InRows(prev.hosts, p) /\ ~InRows(hosts, p)) =>
               PublishedBy(p) /\ HasDeleteItem(op.in.Raw)

\* C34, amended: the host store is changed by HostData and SetLoc requests
\* only, so a session that rows() lists stays listed, whether its peer has
\* disconnected or been evicted, until a publish arrives under the same peer
\* id: one with a delete-shape item, or an upsert that leaves GName, Map and
\* Ip2 empty.
C34_StaleUntilPublish ==
    /\ OnlyPublishesChange
    /\ \A p \in Peers :
           (InRows(prev.hosts, p) /\ ~InRows(hosts, p)) =>
               /\ PublishedBy(p)
               /\ \/ HasDeleteItem(op.in.Raw)
                  \/ p \in DOMAIN hosts /\ ~Visible(hosts[p])

\* A sweep has evicted peer 1 and rows() lists its game as before.
C34_Witness ==
    /\ op.name = "Sweep"
    /\ 1 \in op.evicted
    /\ InRows(prev.hosts, 1)
    /\ InRows(hosts, 1)
----------------------------------------------------------------------------
(* Properties of the outbound queue and of sendWorker. *)

\* C35: the frames handed to the transport's send are, in order, the frames
\* accepted into the queue: every send takes the frame at the head of the
\* queue and removes it, whether the send fails or not (no retry, no second
\* send), and addresses it to the peer it was enqueued for; an enqueue takes
\* the next frame of the request in hand, in the handler's order, and adds it
\* at the tail for the peer that sent the request, or drops it; no other
\* step touches the queue, and a send is a step of sendWorker
\* that leaves the event loop where it was.
C35_SentInOrder ==
    [][/\ op'.name = "SendTo" =>
            /\ senderPc = "select"
            /\ outQ # <<>>
            /\ outQ' = Tail(outQ)
            /\ op'.dpnid = outQ[1].dpnid
            /\ op'.tag = outQ[1].tag
            /\ op'.flags = outQ[1].flags
            /\ op'.payload = MakeZText(xmlText(outQ[1].payloadXML))
            /\ loopPc' = loopPc
            /\ pending' = pending
       /\ op'.name = "Enqueue" =>
            /\ pending # <<>>
            /\ op'.msg = outMsg(pending[1].dpnid, pending[1].out)
            /\ pending' = Tail(pending)
            /\ outQ' = outQ \/ outQ' = Append(outQ, op'.msg)
       /\ op'.name \notin {"SendTo", "Enqueue"} => outQ' = outQ]_vars

\* The send of a ConnectRes has failed and the queue goes on with the frame
\* that was enqueued after it.
C35_Witness ==
    /\ op.name = "SendTo"
    /\ op.err
    /\ op.tag = S("ConnectRes")
    /\ outQ # <<>>
    /\ outQ[1].tag = S("ConInfoRes")
    /\ outQ[1].dpnid = op.dpnid
\* The frames followed: the last frame of the connect bundle of peer 1, which
\* waits behind the two before it, and the answer to the SetLoc of peer 2.
FollowedFrames == {<<1, S("ConnectEv")>>, <<2, S("SetLocRes")>>}

\* The queue holds a frame with tag t for peer d.
Queued(d, t) == \E i \in 1..Len(outQ) : outQ[i].dpnid = d /\ outQ[i].tag = t

\* sendWorker has just handed a frame with tag t for peer d to the transport.
Sent(d, t) == op.name = "SendTo" /\ op.dpnid = d /\ op.tag = t

\* C36: a frame accepted into the queue is handed to the transport's send in
\* the end, unless the context is cancelled first, however many frames the
\* event loop goes on enqueuing (sendWorker being scheduled fairly).
C36_AcceptedSent ==
    \A f \in FollowedFrames : Queued(f[1], f[2]) ~> (ctxDone \/ Sent(f[1], f[2]))

\* With the context live and the loop in the middle of enqueuing the frames
\* of a request, the last frame of a connect bundle has been sent.
C36_Witness ==
    /\ ~ctxDone
    /\ Sent(1, S("ConnectEv"))
    /\ loopPc = "enqueue"
    /\ pending # <<>>
----------------------------------------------------------------------------
(* The observed address through publishes and deletes (second copy of the  *)
(* host store).                                                            *)

\* C39: once a non-empty observed address has been recorded for a peer,
\* every row built for the peer afterwards, by rows or by rowById, has that
\* address as its primary address, through every upsert and delete-shape
\* publish of the peer (a delete that empties its session and a fresh upsert
\* included), as long as no other observed address is recorded for it.
C39_ObservedKept ==
    \A r \in RowsReturned : \A k \in DOMAIN hosts :
        (FormatUint(hosts[k].rid) = r.Rid /\ lastObserved[k] # <<>>) =>
            Get(r.Items, "IpAddr") = lastObserved[k]

\* A row has been built for a peer whose observed address was recorded, whose
\* session a delete then removed and a fresh upsert made anew: the row has
\* the first published address as its primary address.
C39_Witness ==
    /\ op.name = "GamesRows2"
    /\ \E k \in DOMAIN hosts : \E i \in 1..Len(ret) :
           /\ lastObserved[k] # <<>>
           /\ hosts[k].observedRemoteIP = <<>>
           /\ FormatUint(hosts[k].rid) = ret[i].Rid
           /\ Get(ret[i].Items, "IpAddr") = S("203.0.113.9")

\* C39 for a session that stays in the store: no call takes the recorded
\* address from it.
C39_ObservedKeptWhileSession ==
    [][\A k \in Peers :
           (/\ k \in DOMAIN hosts
            /\ k \in DOMAIN hosts'
            /\ hosts'[k].rid = hosts[k].rid
            /\ lastObserved[k] # <<>>
            /\ hosts[k].observedRemoteIP = lastObserved[k]) =>
               hosts'[k].observedRemoteIP = lastObserved'[k]]_vars
----------------------------------------------------------------------------
(* The locks of the two stores.  mu.host is the set of the tasks that hold  *)
(* HostStore.mu (a sync.Mutex), mu.w and mu.r the tasks that hold           *)
(* PlayerStore.mu (a sync.RWMutex) for writing and for reading; mu.stack[t] *)
(* is the calls of task t that have not returned, the innermost last, each  *)
(* a frame [items, dpnid, fn, lock, mode, held, calls].  A call waits for   *)
(* its lock, works while it holds it, and unlocks as it returns (defer).    *)

HostFns == {"SetLoc", "ApplyHostData", "VisibleGamesCount", "GamesRows", "RowByRid"}

PlayerWriteFns == {"Upsert", "Remove", "SweepEvict"}

PlayerReadFns == {"Count", "IsEvicted"}

LockOf(fn) == IF fn \in HostFns THEN "host" ELSE "players"

ModeOf(fn) == IF fn \in PlayerReadFns THEN "r" ELSE "w"

CallsWhileLockedSweepCleans(fn) == IF fn = "SweepEvict" THEN <<"ApplyHostData">> ELSE <<>>

\* The public operations of the stores that the body of fn calls between
\* its Lock and its Unlock: none, for every operation of either store.
CallsWhileLocked(fn) == <<>>

\* The operations each task calls from outside the stores: handleEvent and
\* the protocol engine's handlers, playerSweeper, Stats.
Program(t) ==
    CASE t = "loop"    -> {"Upsert", "Remove", "IsEvicted", "SetLoc", "ApplyHostData",
                           "GamesRows", "RowByRid"}
      [] t = "sweeper" -> {"SweepEvict"}
      [] OTHER         -> {"Count", "VisibleGamesCount"}

Frame(fn, items) ==
    [items |-> items, dpnid |-> 1, fn |-> fn, lock |-> LockOf(fn), mode |-> ModeOf(fn),
     held |-> FALSE, calls |-> CallsWhileLocked(fn)]

Top(t) == mu.stack[t][Len(mu.stack[t])]

\* What task t can call next: anything of its program when it is outside
\* the stores, the next call of the body it is in when it holds the lock.
NextCalls(t) ==
    IF mu.stack[t] = <<>> THEN Program(t)
    ELSE IF Top(t).held /\ Top(t).calls # <<>> THEN {Head(Top(t).calls)}
    ELSE {}

\* The payloads of ApplyHostData here: the publish of a game and its delete.
LockItems(fn) == IF fn = "ApplyHostData" THEN {<<ItemGName>>, <<ItemDel0>>} ELSE {<<>>}

Waiting(t) == mu.stack[t] # <<>> /\ ~Top(t).held

\* Lock and RLock: a Mutex is free or held by one; an RWMutex is held by one
\* writer or by readers, and a reader waits while a writer waits.
CanAcquire(t) ==
    /\ Waiting(t)
    /\ CASE Top(t).lock = "host" -> mu.host = {}
         [] Top(t).mode = "w"    -> mu.w = {} /\ mu.r = {}
         [] OTHER                ->
                /\ mu.w = {}
                /\ ~\E u \in Tasks \ {t} :
                       Waiting(u) /\ Top(u).lock = "players" /\ Top(u).mode = "w"

DoneLock(o, r) ==
    /\ op' = o
    /\ prev' = Before
    /\ ret' = r
    /\ UNCHANGED <<port, hostNil, lastObserved, clock>>
    /\ UNCHANGED loopVars

\* A task enters an operation of a store and comes to its Lock or RLock.
LockCall ==
    \E t \in Tasks : \E fn \in NextCalls(t) : \E items \in LockItems(fn) :
        /\ mu' = [mu EXCEPT !.stack[t] =
                     (IF mu.stack[t] = <<>> THEN <<>>
                      ELSE SubSeq(mu.stack[t], 1, Len(mu.stack[t]) - 1)
                               \o <<[Top(t) EXCEPT !.calls = Tail(Top(t).calls)]>>)
                         \o <<Frame(fn, items)>>]
        /\ DoneLock([name |-> "Call", fn |-> fn, task |-> t], <<>>)
        /\ UNCHANGED <<hosts, nextRid, lastRid, playerStore>>

\* The Lock or RLock of the innermost call of a task returns.
LockAcquire ==
    \E t \in Tasks :
        /\ CanAcquire(t)
        /\ mu' = [mu EXCEPT
                     !.stack[t][Len(mu.stack[t])].held = TRUE,
                     !.host = IF Top(t).lock = "host" THEN mu.host \cup {t} ELSE mu.host,
                     !.w = IF Top(t).lock = "players" /\ Top(t).mode = "w"
                           THEN mu.w \cup {t} ELSE mu.w,
                     !.r = IF Top(t).lock = "players" /\ Top(t).mode = "r"
                           THEN mu.r \cup {t} ELSE mu.r]
        /\ DoneLock([name |-> "Lock", fn |-> Top(t).fn, task |-> t], <<>>)
        /\ UNCHANGED <<hosts, nextRid, lastRid, playerStore>>

\* What the body of the call f does to the stores, and what it returns:
\* [st, players, r].
LockedBody(f) ==
    LET same == [st |-> Store, players |-> playerStore, r |-> <<>>]
    IN  CASE f.fn = "SetLoc" ->
                [same EXCEPT !.st = SetLoc(Store, f.dpnid, S("STAGING AREA=test game"))]
          [] f.fn = "ApplyHostData" ->
                [same EXCEPT !.st = ApplyHostData(Store, f.dpnid, RawOf(f.items))]
          [] f.fn = "VisibleGamesCount" -> [same EXCEPT !.r = VisibleGamesCount(hosts)]
          [] f.fn = "GamesRows" -> [same EXCEPT !.r = GamesRows(hosts, 0, <<>>)]
          [] f.fn = "RowByRid" ->
                [same EXCEPT !.r = CHOOSE x \in RowByRid(hosts, FormatUint(1), <<>>) : TRUE]
          [] f.fn = "Upsert" ->
                [same EXCEPT !.players = Upsert(playerStore, f.dpnid, clock, clock)]
          [] f.fn = "Remove" ->
                [same EXCEPT !.players = Remove(playerStore, f.dpnid)[1],
                             !.r = Remove(playerStore, f.dpnid)[2]]
          [] f.fn = "SweepEvict" ->
                [same EXCEPT
                    !.players = SweepEvict(playerStore, clock, maxPlayerOnlineAge, clock)[1],
                    !.r = SweepEvict(playerStore, clock, maxPlayerOnlineAge, clock)[2]]
          [] f.fn = "Count" -> [same EXCEPT !.r = Count(playerStore)]
          [] OTHER -> [same EXCEPT !.r = IsEvicted(playerStore, f.dpnid)]

\* The innermost call of a task, its own calls made, does its work, unlocks
\* and returns.
LockReturn ==
    \E t \in Tasks :
        /\ mu.stack[t] # <<>>
        /\ Top(t).held
        /\ Top(t).calls = <<>>
        /\ LET f == Top(t)
               b == LockedBody(f)
           IN  /\ b.st.nextRid # nextRid => CanAllocate
               /\ hosts' = b.st.hosts
               /\ nextRid' = b.st.nextRid
               /\ lastRid' = IF b.st.nextRid # nextRid THEN b.st.nextRid - 1 ELSE lastRid
               /\ playerStore' = b.players
               /\ mu' = [mu EXCEPT
                            !.stack[t] = SubSeq(mu.stack[t], 1, Len(mu.stack[t]) - 1),
                            !.host = IF f.lock = "host" THEN mu.host \ {t} ELSE mu.host,
                            !.w = IF f.lock = "players" /\ f.mode = "w"
                                  THEN mu.w \ {t} ELSE mu.w,
                            !.r = IF f.lock = "players" /\ f.mode = "r"
                                  THEN mu.r \ {t} ELSE mu.r]
               /\ DoneLock([name |-> "Return", fn |-> f.fn, task |-> t], b.r)

NextLocks ==
    \/ LockCall
    \/ LockAcquire
    \/ LockReturn

SpecLocks == InitLoop /\ [][NextLocks]_vars

HoldsHost(t) == t \in mu.host

HoldsPlayers(t) == t \in mu.w \cup mu.r

\* The tasks that hold the lock task t waits for.
HoldersFor(t) == IF Top(t).lock = "host" THEN mu.host ELSE mu.w \cup mu.r

\* C40: no task holds the lock of the host store and the lock of the player
\* registry at the same time: an operation of a store takes the lock of its
\* own store only, calls no operation of the other store while it holds it,
\* and has released it when it returns; so no interleaving of the event
\* loop, the sweeper and the readers of Stats ends with tasks that wait for
\* each other: a task that waits for a lock waits for a task that is at work
\* in its critical section, or can take the lock.
C40_LocksApart ==
    /\ \A t \in Tasks : ~(HoldsHost(t) /\ HoldsPlayers(t))
    /\ \A t \in Tasks : Len(mu.stack[t]) <= 1
    /\ \A t \in Tasks : mu.stack[t] = <<>> => ~HoldsHost(t) /\ ~HoldsPlayers(t)
    /\ \A t \in Tasks :
           (mu.stack[t] # <<>> /\ Top(t).held) =>
               IF Top(t).lock = "host" THEN HoldsHost(t) ELSE HoldsPlayers(t)
    /\ \A t \in Tasks :
           Waiting(t) =>
               \/ CanAcquire(t)
               \/ \E u \in HoldersFor(t) : ~Waiting(u)
               \/ \E u \in Tasks \ {t} : CanAcquire(u) /\ Top(u).lock = Top(t).lock

\* The event loop is inside ApplyHostData with the lock of the host store,
\* the sweeper inside SweepEvict with the lock of the registry, and both
\* readers of Stats wait, one for each lock.
C40_Witness ==
    /\ mu.host = {"loop"}
    /\ Top("loop").fn = "ApplyHostData"
    /\ mu.w = {"sweeper"}
    /\ Waiting("stats1")
    /\ Top("stats1").fn = "VisibleGamesCount"
    /\ Waiting("stats2")
    /\ Top("stats2").fn = "Count"

====
